---- MODULE Spec2Model ----
(***************************************************************************)
(* Block editor with a branching undo/redo history.                        *)
(*                                                                         *)
(* A document is a sequence of blocks; a block is a record                 *)
(*   [id, type, content, done, autoFocus, hasChildren, children].         *)
(* Optional fields of the TypeScript types are modelled explicitly:        *)
(*   done        is "absent", "false" or "true";                           *)
(*   children    is present iff hasChildren (and <<>> when absent);        *)
(*   autoFocus   is TRUE iff the transient flag is set.                    *)
(* A value of type T | null (or an optional argument) is a sequence of     *)
(* length 0 (null / undefined) or 1 (the value).  Array indices are the    *)
(* 0-based indices of the source.                                          *)
(***************************************************************************)
EXTENDS Integers, Sequences, FiniteSets, TLC

VARIABLES doc, historyNodes, currentIndex, idCounter, lastCall, executedOn,
          pDoc, pFn, pArgs, pCmd, pFwd, pInv, pStage,
          storage, loaded, sCall, otherItems,
          vInput, vResult,
          cursorPosition, linear,
          timeoutRef, timers, invoked, dCall

histVars == <<doc, historyNodes, currentIndex, idCounter, lastCall>>
patchVars == <<pDoc, pFn, pArgs, pCmd, pFwd, pInv, pStage>>
storeVars == <<storage, loaded, sCall>>
validVars == <<vInput, vResult>>
debounceVars == <<timeoutRef, timers, invoked, dCall>>
sideVars == <<storage, loaded, sCall, otherItems, vInput, vResult, cursorPosition,
              linear, executedOn,
              timeoutRef, timers, invoked, dCall>>
vars == <<doc, historyNodes, currentIndex, idCounter, lastCall, executedOn,
          pDoc, pFn, pArgs, pCmd, pFwd, pInv, pStage,
          storage, loaded, sCall, otherItems, vInput, vResult, cursorPosition,
              linear,
          timeoutRef, timers, invoked, dCall>>

----------------------------------------------------------------------------
(* Bounds *)

MaxNodes == 3

MaxIndex == 3

\* the largest document (number of blocks) undo and redo may build
MaxBlocks == 2

----------------------------------------------------------------------------
(* null / undefined *)

Null == <<>>

Some(x) == <<x>>

IsNull(o) == Len(o) = 0

Val(o) == o[1]

Max(a, b) == IF a >= b THEN a ELSE b

Min(a, b) == IF a <= b THEN a ELSE b

----------------------------------------------------------------------------
(* JavaScript arrays *)

\* arr[i] is defined (a block or node object, hence truthy)
Has(arr, i) == i >= 0 /\ i < Len(arr)

At(arr, i) == arr[i + 1]

\* the clamped start position Array.prototype.splice computes
spliceStart(arr, start) ==
    IF start < 0 THEN Max(Len(arr) + start, 0) ELSE Min(start, Len(arr))

\* arr.splice(start, 0, item)
spliceInsert(arr, start, item) ==
    LET s == spliceStart(arr, start)
    IN  SubSeq(arr, 1, s) \o <<item>> \o SubSeq(arr, s + 1, Len(arr))

\* arr.splice(start, 1)
spliceDelete(arr, start) ==
    LET s == spliceStart(arr, start)
    IN  IF s >= Len(arr) THEN arr
        ELSE SubSeq(arr, 1, s) \o SubSeq(arr, s + 2, Len(arr))

----------------------------------------------------------------------------
(* Tree navigation (lib/utils.ts) *)

\* getBlockAtPath: the block at path, or null
RECURSIVE getBlockAtPath(_, _)
getBlockAtPath(blocks, path) ==
    IF Len(path) = 0 THEN Null
    ELSE LET index == Head(path)
         IN  IF ~Has(blocks, index) THEN Null
             ELSE IF Len(path) = 1 THEN Some(At(blocks, index))
             ELSE IF ~At(blocks, index).hasChildren THEN Null
             ELSE getBlockAtPath(At(blocks, index).children, Tail(path))

\* the document after the object reached by path has been replaced by nb
\* (the effect of a write through the reference getBlockAtPath returned)
RECURSIVE setBlockAtPath(_, _, _)
setBlockAtPath(blocks, path, nb) ==
    LET index == Head(path)
    IN  IF Len(path) = 1 THEN [blocks EXCEPT ![index + 1] = nb]
        ELSE [blocks EXCEPT ![index + 1].children =
                                setBlockAtPath(@, Tail(path), nb)]

\* getParentArray: found = the result is not null; arr = the array
\* returned; doc = the document after the call (children ??= [] creates an
\* empty children array on the addressed block when it has none)
getParentArray(d, path) ==
    IF IsNull(path) \/ Len(Val(path)) = 0
    THEN [found |-> TRUE, doc |-> d, arr |-> d]
    ELSE LET b == getBlockAtPath(d, Val(path))
         IN  IF IsNull(b) THEN [found |-> FALSE, doc |-> d, arr |-> <<>>]
             ELSE [found |-> TRUE,
                   doc |-> setBlockAtPath(d, Val(path),
                                          [Val(b) EXCEPT !.hasChildren = TRUE]),
                   arr |-> Val(b).children]

\* the document after the array getParentArray returned has become arr
\* (the effect of a splice on that array)
setParentArray(d, path, arr) ==
    IF IsNull(path) \/ Len(Val(path)) = 0 THEN arr
    ELSE LET b == Val(getBlockAtPath(d, Val(path)))
         IN  setBlockAtPath(d, Val(path), [b EXCEPT !.children = arr])

\* pathEquals
pathEquals(path1, path2) ==
    IF IsNull(path1) /\ IsNull(path2) THEN TRUE
    ELSE IF IsNull(path1) \/ IsNull(path2) THEN FALSE
    ELSE IF Len(Val(path1)) # Len(Val(path2)) THEN FALSE
    ELSE \A i \in 1..Len(Val(path1)) : Val(path1)[i] = Val(path2)[i]

isTodoBlock(block) == block.type = "todo"

\* createBlock(type) with the id generateId() returned
createBlock(type, id) ==
    [id |-> id, type |-> type, content |-> "",
     done |-> IF type = "todo" THEN "false" ELSE "absent",
     autoFocus |-> FALSE, hasChildren |-> FALSE, children |-> <<>>]

----------------------------------------------------------------------------
(* Patch engine (lib/patches/patches.ts) *)

applyUpdateOp(d, op) ==
    LET block == getBlockAtPath(d, op.path)
    IN  IF IsNull(block) THEN d
        ELSE IF op.field = "content"
             THEN setBlockAtPath(d, op.path, [Val(block) EXCEPT !.content = op.value])
        ELSE IF op.field = "done"
             THEN setBlockAtPath(d, op.path, [Val(block) EXCEPT !.done = op.value])
        ELSE d

applyInsertOp(d, op) ==
    LET parent == getParentArray(d, op.parentPath)
    IN  IF parent.found
        THEN setParentArray(parent.doc, op.parentPath,
                            spliceInsert(parent.arr, op.index, op.block))
        ELSE d

applyDeleteOp(d, op) ==
    LET parent == getParentArray(d, op.parentPath)
    IN  IF parent.found
        THEN setParentArray(parent.doc, op.parentPath,
                            spliceDelete(parent.arr, op.index))
        ELSE d

\* applyMoveOp without the removal from the source array
applyMoveOpKeepingSource(d, op) ==
    LET fromParent == getParentArray(d, op.fromParentPath)
    IN  IF ~fromParent.found \/ ~Has(fromParent.arr, op.fromIndex)
        THEN fromParent.doc
        ELSE LET blockToMove == At(fromParent.arr, op.fromIndex)
                 toParent == getParentArray(fromParent.doc, op.toParentPath)
             IN  IF toParent.found
                 THEN setParentArray(toParent.doc, op.toParentPath,
                          spliceInsert(toParent.arr, op.toIndex, blockToMove))
                 ELSE fromParent.doc

applyMoveOp(d, op) ==
    LET fromParent == getParentArray(d, op.fromParentPath)
    IN  IF ~fromParent.found \/ ~Has(fromParent.arr, op.fromIndex)
        THEN fromParent.doc
        ELSE LET blockToMove == At(fromParent.arr, op.fromIndex)
                 removed == setParentArray(fromParent.doc, op.fromParentPath,
                                spliceDelete(fromParent.arr, op.fromIndex))
                 isSameParent == pathEquals(op.fromParentPath, op.toParentPath)
                 adjustedToIndex ==
                     IF isSameParent /\ op.fromIndex < op.toIndex
                     THEN op.toIndex - 1 ELSE op.toIndex
                 toParent == getParentArray(removed, op.toParentPath)
             IN  IF toParent.found
                 THEN setParentArray(toParent.doc, op.toParentPath,
                          spliceInsert(toParent.arr, adjustedToIndex, blockToMove))
                 ELSE removed

applyOp(d, op) ==
    IF op.type = "update" THEN applyUpdateOp(d, op)
    ELSE IF op.type = "insert" THEN applyInsertOp(d, op)
    ELSE IF op.type = "delete" THEN applyDeleteOp(d, op)
    ELSE IF op.type = "move" THEN applyMoveOp(d, op)
    ELSE d

RECURSIVE applyOps(_, _)
applyOps(d, ops) ==
    IF Len(ops) = 0 THEN d ELSE applyOps(applyOp(d, Head(ops)), Tail(ops))

\* applyPatch: the ops applied in order to a structured clone of the document
applyPatch(d, patch) == applyOps(d, patch.ops)

\* a call applyPatch(d, patch) with the ops applied to the caller's array
\* itself (no structuredClone)
applyPatchInPlace(d, patch) ==
    [result |-> applyPatch(d, patch),
     doc |-> applyPatch(d, patch),
     sameObject |-> TRUE]

\* a call applyPatch(d, patch) as its caller sees it: result = the value
\* returned; doc = the caller's document after the call; sameObject = the
\* value returned is the caller's array (result === doc).  The ops write to
\* result = structuredClone(doc), a new array of new objects.
applyPatchCall(d, patch) ==
    [result |-> applyPatch(d, patch),
     doc |-> d,
     sameObject |-> FALSE]

----------------------------------------------------------------------------
(* Command factory (lib/commands/commands.ts) *)

updateContentCommand(d, path, newContent) ==
    LET block == getBlockAtPath(d, path)
    IN  IF IsNull(block) THEN Null
        ELSE Some([forward |-> [ops |-> <<[type |-> "update", path |-> path,
                                          field |-> "content",
                                          value |-> newContent,
                                          oldValue |-> Val(block).content]>>],
                   inverse |-> [ops |-> <<[type |-> "update", path |-> path,
                                          field |-> "content",
                                          value |-> Val(block).content,
                                          oldValue |-> newContent]>>]])

\* toggleTodoCommand without the test of the block's type
toggleTodoCommandAnyType(d, path) ==
    LET block == getBlockAtPath(d, path)
    IN  IF IsNull(block) THEN Null
        ELSE LET currentDone == IF Val(block).done = "absent" THEN "false"
                                ELSE Val(block).done
                 newDone == IF currentDone = "true" THEN "false" ELSE "true"
             IN  Some([forward |-> [ops |-> <<[type |-> "update", path |-> path,
                                               field |-> "done",
                                               value |-> newDone,
                                               oldValue |-> currentDone]>>],
                       inverse |-> [ops |-> <<[type |-> "update", path |-> path,
                                               field |-> "done",
                                               value |-> currentDone,
                                               oldValue |-> newDone]>>]])

toggleTodoCommand(d, path) ==
    LET block == getBlockAtPath(d, path)
    IN  IF IsNull(block) \/ ~isTodoBlock(Val(block)) THEN Null
        ELSE LET currentDone == IF Val(block).done = "absent" THEN "false"
                                ELSE Val(block).done
                 newDone == IF currentDone = "true" THEN "false" ELSE "true"
             IN  Some([forward |-> [ops |-> <<[type |-> "update", path |-> path,
                                               field |-> "done",
                                               value |-> newDone,
                                               oldValue |-> currentDone]>>],
                       inverse |-> [ops |-> <<[type |-> "update", path |-> path,
                                               field |-> "done",
                                               value |-> currentDone,
                                               oldValue |-> newDone]>>]])

\* insertBlockCommand whose inverse deletes the first block of the array
insertBlockCommandUndoingFirst(parentPath, index, type, id) ==
    LET newBlock == [createBlock(type, id) EXCEPT !.autoFocus = TRUE]
    IN  [forward |-> [ops |-> <<[type |-> "insert", parentPath |-> parentPath,
                                 index |-> index, block |-> newBlock]>>],
         inverse |-> [ops |-> <<[type |-> "delete", parentPath |-> parentPath,
                                 index |-> 0, deleted |-> newBlock]>>]]

\* insertBlockCommand, with the id generateId() returned
insertBlockCommand(parentPath, index, type, id) ==
    LET newBlock == [createBlock(type, id) EXCEPT !.autoFocus = TRUE]
    IN  [forward |-> [ops |-> <<[type |-> "insert", parentPath |-> parentPath,
                                 index |-> index, block |-> newBlock]>>],
         inverse |-> [ops |-> <<[type |-> "delete", parentPath |-> parentPath,
                                 index |-> index, deleted |-> newBlock]>>]]

\* deleteBlockCommand: cmd = the result; doc = the document after the call
\* (getParentArray is called on the caller's document itself)
deleteBlockCommand(d, parentPath, index) ==
    LET parent == getParentArray(d, parentPath)
    IN  IF ~parent.found \/ ~Has(parent.arr, index)
        THEN [cmd |-> Null, doc |-> parent.doc]
        ELSE LET deletedBlock == At(parent.arr, index)
             IN  [cmd |-> Some(
                     [forward |-> [ops |-> <<[type |-> "delete",
                                              parentPath |-> parentPath,
                                              index |-> index,
                                              deleted |-> deletedBlock]>>],
                      inverse |-> [ops |-> <<[type |-> "insert",
                                              parentPath |-> parentPath,
                                              index |-> index,
                                              block |-> deletedBlock]>>]]),
                   doc |-> parent.doc]

moveBlockCommand(fromParentPath, fromIndex, toParentPath, toIndex) ==
    [forward |-> [ops |-> <<[type |-> "move",
                             fromParentPath |-> fromParentPath,
                             fromIndex |-> fromIndex,
                             toParentPath |-> toParentPath,
                             toIndex |-> toIndex]>>],
     inverse |-> [ops |-> <<[type |-> "move",
                             fromParentPath |-> toParentPath,
                             fromIndex |-> toIndex,
                             toParentPath |-> fromParentPath,
                             toIndex |-> fromIndex]>>]]

----------------------------------------------------------------------------
(* History tree (lib/history-tree.ts).  A node is                          *)
(*   [command, parentIndex, branches];                                     *)
(* its timestamp (Date.now()) is read by no operation of the history tree  *)
(* and is not part of the model.                                           *)

\* the indices i of nodes, in increasing order, with parentIndex === null
RECURSIVE rootScan(_, _)
rootScan(nodes, i) ==
    IF i >= Len(nodes) THEN <<>>
    ELSE (IF IsNull(At(nodes, i).parentIndex) THEN <<i>> ELSE <<>>)
         \o rootScan(nodes, i + 1)

getRootNodeIndices(nodes) == rootScan(nodes, 0)

getRedoBranches(nodes, cur) ==
    IF cur >= 0
    THEN IF Has(nodes, cur) THEN At(nodes, cur).branches ELSE <<>>
    ELSE getRootNodeIndices(nodes)

canUndo(cur) == cur >= 0

\* canRedo looking at the current node's branches only (no root scan)
canRedoBranchesOnly(nodes, cur) ==
    cur >= 0 /\ Has(nodes, cur) /\ Len(At(nodes, cur).branches) > 0

canRedo(nodes, cur) == Len(getRedoBranches(nodes, cur)) > 0

\* addHistoryNode with the new index read after the push (off by one)
addHistoryNodeIndexAfterPush(nodes, cur, command) ==
    LET newNode == [command |-> command,
                    parentIndex |-> IF cur >= 0 THEN Some(cur) ELSE Null,
                    branches |-> <<>>]
        updatedNodes ==
            IF cur >= 0
            THEN [nodes EXCEPT ![cur + 1].branches = Append(@, Len(nodes) + 1)]
            ELSE nodes
    IN  [nodes |-> Append(updatedNodes, newNode), newIndex |-> Len(nodes)]

\* addHistoryNode parenting the new node to its own index
addHistoryNodeSelfParent(nodes, cur, command) ==
    LET newNode == [command |-> command,
                    parentIndex |-> IF cur >= 0 THEN Some(Len(nodes)) ELSE Null,
                    branches |-> <<>>]
        updatedNodes ==
            IF cur >= 0
            THEN [nodes EXCEPT ![cur + 1].branches = Append(@, Len(nodes))]
            ELSE nodes
    IN  [nodes |-> Append(updatedNodes, newNode), newIndex |-> Len(nodes)]

\* addHistoryNode returning the length after the push as the new index
addHistoryNodeNewIndexIsLength(nodes, cur, command) ==
    LET newNode == [command |-> command,
                    parentIndex |-> IF cur >= 0 THEN Some(cur) ELSE Null,
                    branches |-> <<>>]
        updatedNodes ==
            IF cur >= 0
            THEN [nodes EXCEPT ![cur + 1].branches = Append(@, Len(nodes))]
            ELSE nodes
    IN  [nodes |-> Append(updatedNodes, newNode), newIndex |-> Len(nodes) + 1]

\* addHistoryNode of a linear history: the redo tail is cut off
addHistoryNodeTruncating(nodes, cur, command) ==
    LET newNode == [command |-> command,
                    parentIndex |-> IF cur >= 0 THEN Some(cur) ELSE Null,
                    branches |-> <<>>]
        kept == SubSeq(nodes, 1, cur + 1)
        updatedNodes ==
            IF cur >= 0
            THEN [kept EXCEPT ![cur + 1].branches = <<Len(kept)>>]
            ELSE kept
    IN  [nodes |-> Append(updatedNodes, newNode), newIndex |-> Len(kept)]

\* addHistoryNode putting the new index in front of the parent's branches
addHistoryNodePrepending(nodes, cur, command) ==
    LET newNode == [command |-> command,
                    parentIndex |-> IF cur >= 0 THEN Some(cur) ELSE Null,
                    branches |-> <<>>]
        updatedNodes ==
            IF cur >= 0
            THEN [nodes EXCEPT ![cur + 1].branches = <<Len(nodes)>> \o @]
            ELSE nodes
    IN  [nodes |-> Append(updatedNodes, newNode), newIndex |-> Len(nodes)]

\* addHistoryNode registering the new node twice with its parent
addHistoryNodeRegisteringTwice(nodes, cur, command) ==
    LET newNode == [command |-> command,
                    parentIndex |-> IF cur >= 0 THEN Some(cur) ELSE Null,
                    branches |-> <<>>]
        updatedNodes ==
            IF cur >= 0
            THEN [nodes EXCEPT ![cur + 1].branches = @ \o <<Len(nodes), Len(nodes)>>]
            ELSE nodes
    IN  [nodes |-> Append(updatedNodes, newNode), newIndex |-> Len(nodes)]

addHistoryNode(nodes, cur, command) ==
    LET newNode == [command |-> command,
                    parentIndex |-> IF cur >= 0 THEN Some(cur) ELSE Null,
                    branches |-> <<>>]
        updatedNodes ==
            IF cur >= 0
            THEN [nodes EXCEPT ![cur + 1].branches = Append(@, Len(nodes))]
            ELSE nodes
    IN  [nodes |-> Append(updatedNodes, newNode), newIndex |-> Len(nodes)]

\* getUndoTargetIndex of a linear history: the previous index
getUndoTargetIndexLinear(nodes, cur) ==
    IF cur < 0 THEN -1 ELSE cur - 1

getUndoTargetIndex(nodes, cur) ==
    IF cur < 0 THEN -1
    ELSE IF ~Has(nodes, cur) THEN -1
    ELSE IF IsNull(At(nodes, cur).parentIndex) THEN -1
    ELSE Val(At(nodes, cur).parentIndex)

\* getRedoTargetIndex ignoring nodeIndex
getRedoTargetIndexNoChoice(nodes, cur, nodeIndex) ==
    LET branchIndices == getRedoBranches(nodes, cur)
    IN  IF Len(branchIndices) = 0 THEN -1
        ELSE LET targetIndex == branchIndices[Len(branchIndices)]
             IN  IF Has(nodes, targetIndex) THEN targetIndex ELSE -1

\* getRedoTargetIndex defaulting to the first branch
getRedoTargetIndexFirst(nodes, cur, nodeIndex) ==
    LET branchIndices == getRedoBranches(nodes, cur)
    IN  IF Len(branchIndices) = 0 THEN -1
        ELSE IF ~IsNull(nodeIndex) /\ Has(nodes, Val(nodeIndex))
             THEN Val(nodeIndex)
        ELSE LET targetIndex == branchIndices[1]
             IN  IF Has(nodes, targetIndex) THEN targetIndex ELSE -1

\* nodeIndex is the optional argument of redo
\* getRedoTargetIndex giving up on a nodeIndex that names no node
getRedoTargetIndexStrict(nodes, cur, nodeIndex) ==
    LET branchIndices == getRedoBranches(nodes, cur)
    IN  IF Len(branchIndices) = 0 THEN -1
        ELSE IF ~IsNull(nodeIndex)
             THEN IF Has(nodes, Val(nodeIndex)) THEN Val(nodeIndex) ELSE -1
        ELSE LET targetIndex == branchIndices[Len(branchIndices)]
             IN  IF Has(nodes, targetIndex) THEN targetIndex ELSE -1

getRedoTargetIndex(nodes, cur, nodeIndex) ==
    LET branchIndices == getRedoBranches(nodes, cur)
    IN  IF Len(branchIndices) = 0 THEN -1
        ELSE IF ~IsNull(nodeIndex) /\ Has(nodes, Val(nodeIndex))
             THEN Val(nodeIndex)
        ELSE LET targetIndex == branchIndices[Len(branchIndices)]
             IN  IF Has(nodes, targetIndex) THEN targetIndex ELSE -1

----------------------------------------------------------------------------
(* Documents and arguments the history tree is driven with *)

Blk(id, type, content, done, hasChildren, children) ==
    [id |-> id, type |-> type, content |-> content, done |-> done,
     autoFocus |-> FALSE, hasChildren |-> hasChildren, children |-> children]

\* the document the history tree is initialised with
InitialDoc == << Blk(1, "text", "a", "absent", FALSE, <<>>) >>

\* the first id generateId() hands out: one no block of InitialDoc has
FirstFreshId == Len(InitialDoc) + 1

\* arguments of the edit actions
UpdateArgs == {<< <<0>>, "x" >>}

InsertArgs == {<<Null, 1, "text">>}

MoveArgs == {<<Null, 0, Null, 2>>}

\* the optional nodeIndex argument of redo
RedoArgs == {Null} \cup {Some(k) : k \in 0..MaxNodes}

\* the number of blocks of a document, descendants included
RECURSIVE blockCount(_)
blockCount(blocks) ==
    IF Len(blocks) = 0 THEN 0
    ELSE 1 + blockCount(Head(blocks).children) + blockCount(Tail(blocks))

----------------------------------------------------------------------------
(* useHistoryTree: state and operations.  lastCall records the last call   *)
(* made on the hook: its name, the command execute was given (Null for     *)
(* null, and for undo and redo), and whether redo was given no nodeIndex   *)
(* ("none"), the index of a recorded node ("valid") or another number      *)
(* ("invalid").                                                            *)

Call(op, cmd, arg) == [op |-> op, cmd |-> cmd, arg |-> arg]

argKind(nodes, nodeIndex) ==
    IF IsNull(nodeIndex) THEN "none"
    ELSE IF Has(nodes, Val(nodeIndex)) THEN "valid" ELSE "invalid"

InitHist ==
    /\ doc = InitialDoc
    /\ historyNodes = <<>>
    /\ currentIndex = -1
    /\ idCounter = FirstFreshId
    /\ lastCall = Call("init", Null, "none")

InitPatchIdle ==
    /\ pDoc = <<>>
    /\ pFn = "none"
    /\ pArgs = <<>>
    /\ pCmd = Null
    /\ pFwd = <<>>
    /\ pInv = <<>>
    /\ pStage = "idle"

InitStoreIdle ==
    /\ storage = Null
    /\ loaded = Null
    /\ sCall = [fn |-> "none", args |-> Null, before |-> Null, wrote |-> FALSE]
    /\ otherItems = [key \in {"editor-state"} |-> Null]

InitValidIdle ==
    /\ vInput = [fn |-> "none"]
    /\ vResult = Null

InitCursorIdle == cursorPosition = Null

InitLinearIdle == linear = [doc |-> <<>>, history |-> <<>>, historyIndex |-> -1]

InitReplayIdle == executedOn = <<>>

InitDebounceIdle ==
    /\ timeoutRef = Null
    /\ timers = {}
    /\ invoked = <<>>
    /\ dCall = [fn |-> "none", pending |-> Null, calls |-> 0]

InitSideIdle ==
    InitStoreIdle /\ InitValidIdle /\ InitCursorIdle /\ InitLinearIdle /\ InitReplayIdle /\ InitDebounceIdle

Init == InitHist /\ InitPatchIdle /\ InitSideIdle

\* execute without the null guard: null is recorded as an empty command
executeRecordingNull(command) ==
    LET c == IF IsNull(command)
             THEN [forward |-> [ops |-> <<>>], inverse |-> [ops |-> <<>>]]
             ELSE Val(command)
    IN  /\ Len(historyNodes) < MaxNodes
        /\ doc' = applyPatch(doc, c.forward)
        /\ LET r == addHistoryNode(historyNodes, currentIndex, c)
           IN  /\ historyNodes' = r.nodes
               /\ currentIndex' = r.newIndex
        /\ lastCall' = Call("execute", command, "none")

\* execute(command)
execute(command) ==
    /\ IF IsNull(command)
       THEN UNCHANGED <<doc, historyNodes, currentIndex>>
       ELSE /\ Len(historyNodes) < MaxNodes
            /\ doc' = applyPatch(doc, Val(command).forward)
            /\ LET r == addHistoryNode(historyNodes, currentIndex, Val(command))
               IN  /\ historyNodes' = r.nodes
                   /\ currentIndex' = r.newIndex
    /\ lastCall' = Call("execute", command, "none")

\* a call execute(null), as made when a factory has returned null
ExecuteNull ==
    /\ execute(Null)
    /\ UNCHANGED <<idCounter, patchVars, sideVars>>

\* EditorProvider.updateContent
UpdateContent(path, content) ==
    /\ execute(updateContentCommand(doc, path, content))
    /\ UNCHANGED <<idCounter, patchVars, sideVars>>

\* EditorProvider.insertBlock
InsertBlock(parentPath, index, type) ==
    /\ execute(Some(insertBlockCommand(parentPath, index, type, idCounter)))
    /\ idCounter' = idCounter + 1
    /\ UNCHANGED <<patchVars, sideVars>>

\* EditorProvider.moveBlock
MoveBlock(fromParentPath, fromIndex, toParentPath, toIndex) ==
    /\ execute(Some(moveBlockCommand(fromParentPath, fromIndex, toParentPath, toIndex)))
    /\ UNCHANGED <<idCounter, patchVars, sideVars>>

\* undo()
undo ==
    LET targetIndex == getUndoTargetIndex(historyNodes, currentIndex)
    IN  /\ IF currentIndex < 0
           THEN UNCHANGED <<doc, currentIndex>>
           ELSE LET node == At(historyNodes, currentIndex)
                IN  /\ doc' = applyPatch(doc, node.command.inverse)
                    /\ blockCount(doc') <= MaxBlocks
                    /\ currentIndex' = targetIndex
        /\ lastCall' = Call("undo", Null, "none")
        /\ UNCHANGED historyNodes

Undo ==
    /\ undo
    /\ UNCHANGED <<idCounter, patchVars, sideVars>>

\* redo(nodeIndex)
redo(nodeIndex) ==
    LET targetIndex == getRedoTargetIndex(historyNodes, currentIndex, nodeIndex)
    IN  /\ IF targetIndex = -1
           THEN UNCHANGED <<doc, currentIndex>>
           ELSE LET node == At(historyNodes, targetIndex)
                IN  /\ doc' = applyPatch(doc, node.command.forward)
                    /\ blockCount(doc') <= MaxBlocks
                    /\ currentIndex' = targetIndex
        /\ lastCall' = Call("redo", Null, argKind(historyNodes, nodeIndex))
        /\ UNCHANGED historyNodes

Redo(nodeIndex) ==
    /\ redo(nodeIndex)
    /\ UNCHANGED <<idCounter, patchVars, sideVars>>

\* derived state: redoBranches (the branch indices, each paired with its
\* node; entries without a node are filtered out)
redoBranches(nodes, cur) ==
    LET branchIndices == getRedoBranches(nodes, cur)
        mapped == [k \in 1..Len(branchIndices) |->
                      [node |-> IF Has(nodes, branchIndices[k])
                                THEN Some(At(nodes, branchIndices[k])) ELSE Null,
                       nodeIndex |-> branchIndices[k]]]
        kept == SelectSeq(mapped, LAMBDA branch : ~IsNull(branch.node))
    IN  [k \in 1..Len(kept) |->
            [node |-> Val(kept[k].node), nodeIndex |-> kept[k].nodeIndex]]

Next ==
    \/ ExecuteNull
    \/ \E a \in UpdateArgs : UpdateContent(a[1], a[2])
    \/ \E a \in InsertArgs : InsertBlock(a[1], a[2], a[3])
    \/ \E a \in MoveArgs : MoveBlock(a[1], a[2], a[3], a[4])
    \/ Undo
    \/ \E nodeIndex \in RedoArgs : Redo(nodeIndex)

Spec == Init /\ [][Next]_vars

----------------------------------------------------------------------------
(* Properties of the history tree *)

\* node i of the history (0-based)
Node(i) == At(historyNodes, i)

NodeIndices == 0..(Len(historyNodes) - 1)

IsPrefix(s, t) == Len(s) <= Len(t) /\ SubSeq(t, 1, Len(s)) = s

\* the last call was execute with a command
ExecutedCommand(call) == call.op = "execute" /\ ~IsNull(call.cmd)

\* node 0 has the two branches 1 and 2 (c1, c2, undo, c3)
Branched ==
    /\ Len(historyNodes) >= 3
    /\ Node(0).branches = <<1, 2>>

(* C2. Branch invariant: for every node p and every b in p.branches, b is   *)
(* the index of a node and that node's parentIndex is p.                   *)
BranchInvariant ==
    \A p \in NodeIndices :
        \A k \in 1..Len(Node(p).branches) :
            LET b == Node(p).branches[k]
            IN  Has(historyNodes, b) /\ Node(b).parentIndex = Some(p)

BranchInvariantWitness ==
    \E p \in NodeIndices : Len(Node(p).branches) >= 2 /\ lastCall.op = "redo"

(* C3. Acyclicity: every node's parentIndex is null or an index of a node  *)
(* strictly smaller than the node's own index.                             *)
Acyclicity ==
    \A i \in NodeIndices :
        \/ IsNull(Node(i).parentIndex)
        \/ (0 <= Val(Node(i).parentIndex) /\ Val(Node(i).parentIndex) < i)

AcyclicityWitness ==
    \E i \in NodeIndices :
        /\ ~IsNull(Node(i).parentIndex)
        /\ Val(Node(i).parentIndex) < i - 1
        /\ lastCall.op = "execute"

(* C4. -1 <= currentIndex < historyNodes.length in every state reachable   *)
(* by execute, undo and redo with any nodeIndex argument.                  *)
CurrentIndexInRange ==
    -1 <= currentIndex /\ currentIndex < Len(historyNodes)

CurrentIndexInRangeWitness ==
    /\ lastCall.op = "redo"
    /\ lastCall.arg = "valid"
    /\ currentIndex = Len(historyNodes) - 1
    /\ Len(historyNodes) = MaxNodes

(* C5. Recorded history is never destroyed or rewritten: a step never      *)
(* shortens historyNodes; every recorded node keeps its command and its    *)
(* parentIndex, and its branches only grow at the end; execute of a        *)
(* command appends one node and appends its index to the branches of the   *)
(* node that was current and changes no other node; undo and redo leave    *)
(* historyNodes unchanged.                                                 *)
HistoryAppendOnly ==
    [][ /\ Len(historyNodes') >= Len(historyNodes)
        /\ \A i \in NodeIndices :
               /\ At(historyNodes', i).command = Node(i).command
               /\ At(historyNodes', i).parentIndex = Node(i).parentIndex
               /\ IsPrefix(Node(i).branches, At(historyNodes', i).branches)
        /\ ExecutedCommand(lastCall') =>
               /\ Len(historyNodes') = Len(historyNodes) + 1
               /\ \A i \in NodeIndices :
                      At(historyNodes', i).branches =
                          IF i = currentIndex
                          THEN Append(Node(i).branches, Len(historyNodes))
                          ELSE Node(i).branches
        /\ lastCall'.op \in {"undo", "redo"} => historyNodes' = historyNodes
      ]_vars

\* a command has been executed after an undo, from a node that had a branch
HistoryAppendOnlyWitness ==
    /\ ExecutedCommand(lastCall)
    /\ currentIndex = Len(historyNodes) - 1
    /\ ~IsNull(Node(currentIndex).parentIndex)
    /\ Len(Node(Val(Node(currentIndex).parentIndex)).branches) >= 2

\* the indices one undo() or redo(nodeIndex) call leads to from index i
stepTargets(nodes, i) ==
    LET redoTargets ==
            {getRedoTargetIndex(nodes, i, a) :
                 a \in {Null} \cup {Some(k) : k \in 0..(Len(nodes) - 1)}}
    IN  (IF i >= 0 THEN {getUndoTargetIndex(nodes, i)} ELSE {})
        \cup (redoTargets \ {-1})

\* the indices finitely many undo() and redo(nodeIndex) calls lead to, from
\* the indices in seen, of which those in frontier are still to be stepped
RECURSIVE reachableFrom(_, _, _)
reachableFrom(nodes, seen, frontier) ==
    IF frontier = {} THEN seen
    ELSE LET fresh == UNION {stepTargets(nodes, i) : i \in frontier} \ seen
         IN  reachableFrom(nodes, seen \cup fresh, fresh)

reachableIndices(nodes, cur) == reachableFrom(nodes, {cur}, {cur})

(* C6. Prior redo paths remain reachable: in every reachable state, every  *)
(* index j < historyNodes.length is the currentIndex after some finite     *)
(* sequence of undo() and redo(nodeIndex) calls.                           *)
AllNodesReachable ==
    NodeIndices \subseteq reachableIndices(historyNodes, currentIndex)

\* the abandoned branch 1 has been redone to after branch 2 was recorded
AllNodesReachableWitness ==
    /\ Branched
    /\ lastCall.op = "redo"
    /\ currentIndex = 1

(* C7. execute(c) with a command c, from (doc, nodes, cur) with n =        *)
(* nodes.length: the document becomes applyPatch(doc, c.forward); nodes    *)
(* has length n+1 and its last node has command c, no branches and         *)
(* parentIndex cur (null when cur < 0); when cur >= 0, n is appended at    *)
(* the end of nodes[cur].branches; currentIndex becomes n.                 *)
ExecuteEffect ==
    [][ ExecutedCommand(lastCall') =>
            LET n == Len(historyNodes)
                c == Val(lastCall'.cmd)
            IN  /\ doc' = applyPatch(doc, c.forward)
                /\ Len(historyNodes') = n + 1
                /\ At(historyNodes', n).command = c
                /\ At(historyNodes', n).branches = <<>>
                /\ At(historyNodes', n).parentIndex =
                       (IF currentIndex >= 0 THEN Some(currentIndex) ELSE Null)
                /\ currentIndex >= 0 =>
                       At(historyNodes', currentIndex).branches =
                           Append(Node(currentIndex).branches, n)
                /\ currentIndex' = n
      ]_vars

\* c1, c2, undo, c3: node 0 has branches [1,2] and c3 is current
ExecuteEffectWitness ==
    /\ ExecutedCommand(lastCall)
    /\ Len(historyNodes) = 3
    /\ Node(0).branches = <<1, 2>>
    /\ currentIndex = 2

(* C8. execute(null) is a no-op: document, historyNodes and currentIndex    *)
(* are unchanged.                                                          *)
ExecuteNullNoOp ==
    [][ (lastCall'.op = "execute" /\ IsNull(lastCall'.cmd)) =>
            UNCHANGED <<doc, historyNodes, currentIndex>>
      ]_vars

ExecuteNullNoOpWitness ==
    /\ lastCall.op = "execute"
    /\ IsNull(lastCall.cmd)
    /\ Len(historyNodes) > 0
    /\ currentIndex >= 0

(* C9. undo() with currentIndex < 0 changes nothing; otherwise the         *)
(* document becomes applyPatch(doc, nodes[currentIndex].command.inverse)   *)
(* and currentIndex becomes that node's parentIndex, or -1 when it is null.*)
UndoEffect ==
    [][ lastCall'.op = "undo" =>
            IF currentIndex < 0
            THEN UNCHANGED <<doc, historyNodes, currentIndex>>
            ELSE /\ doc' = applyPatch(doc, Node(currentIndex).command.inverse)
                 /\ currentIndex' =
                        (IF IsNull(Node(currentIndex).parentIndex) THEN -1
                         ELSE Val(Node(currentIndex).parentIndex))
      ]_vars

\* an undo has led to node 0, which has two branches
UndoEffectWitness ==
    /\ lastCall.op = "undo"
    /\ Branched
    /\ currentIndex = 0

\* the candidate set of the position cur, as a set
candidates(nodes, cur) ==
    IF cur >= 0
    THEN {At(nodes, cur).branches[k] : k \in 1..Len(At(nodes, cur).branches)}
    ELSE {i \in 0..(Len(nodes) - 1) : IsNull(At(nodes, i).parentIndex)}

\* the most recently appended candidate: the last branch of the current
\* node, or the root node of the highest index
mostRecentCandidate(nodes, cur) ==
    IF cur >= 0
    THEN At(nodes, cur).branches[Len(At(nodes, cur).branches)]
    ELSE CHOOSE i \in candidates(nodes, cur) :
             \A j \in candidates(nodes, cur) : j <= i

(* C10. redo() without a nodeIndex, when the candidate set is not empty,   *)
(* moves to the most recently appended candidate and replaces the document *)
(* by the result of applying that node's forward patch.                    *)
RedoDefault ==
    [][ ( /\ lastCall'.op = "redo"
          /\ lastCall'.arg = "none"
          /\ candidates(historyNodes, currentIndex) # {} ) =>
            LET t == mostRecentCandidate(historyNodes, currentIndex)
            IN  /\ currentIndex' = t
                /\ doc' = applyPatch(doc, Node(t).command.forward)
      ]_vars

\* redo() has chosen branch 2 of the two branches of node 0
RedoDefaultWitness ==
    /\ lastCall.op = "redo"
    /\ lastCall.arg = "none"
    /\ Branched
    /\ currentIndex = 2

(* C11. redo only ever moves to a child of the current position: whenever  *)
(* a redo call, with or without a nodeIndex, changes currentIndex from i   *)
(* to j, historyNodes[j].parentIndex = i when i >= 0 and                   *)
(* historyNodes[j].parentIndex = null when i = -1.                         *)
RedoMovesToChild ==
    [][ (lastCall'.op = "redo" /\ currentIndex' # currentIndex) =>
            /\ Has(historyNodes, currentIndex')
            /\ At(historyNodes, currentIndex').parentIndex =
                   (IF currentIndex >= 0 THEN Some(currentIndex) ELSE Null)
      ]_vars

(* C12. redo(nodeIndex) with a nodeIndex that is not the index of any      *)
(* recorded node is a no-op: document, historyNodes and currentIndex are   *)
(* unchanged.                                                              *)
RedoInvalidIndexNoOp ==
    [][ (lastCall'.op = "redo" /\ lastCall'.arg = "invalid") =>
            UNCHANGED <<doc, historyNodes, currentIndex>>
      ]_vars

(* C12, amended. redo(nodeIndex) with a nodeIndex that is not the index of *)
(* any recorded node does what redo() does: nothing when the candidate set *)
(* is empty; otherwise it moves to the most recently appended candidate    *)
(* and replaces the document by the result of applying that node's forward *)
(* patch; historyNodes is unchanged.                                       *)
RedoInvalidIndexDefaults ==
    [][ (lastCall'.op = "redo" /\ lastCall'.arg = "invalid") =>
            /\ historyNodes' = historyNodes
            /\ IF candidates(historyNodes, currentIndex) = {}
               THEN UNCHANGED <<doc, currentIndex>>
               ELSE LET t == mostRecentCandidate(historyNodes, currentIndex)
                    IN  /\ currentIndex' = t
                        /\ doc' = applyPatch(doc, Node(t).command.forward)
      ]_vars

\* a redo with an index of no node has moved to a node that has a branch
\* itself (so the call was made from another position)
RedoInvalidIndexDefaultsWitness ==
    /\ lastCall.op = "redo"
    /\ lastCall.arg = "invalid"
    /\ currentIndex >= 0
    /\ Len(Node(currentIndex).branches) > 0

\* the ids of the blocks of a document, parents before their children
RECURSIVE blockIds(_)
blockIds(blocks) ==
    IF Len(blocks) = 0 THEN <<>>
    ELSE <<Head(blocks).id>> \o blockIds(Head(blocks).children)
                            \o blockIds(Tail(blocks))

\* the elements of s are pairwise distinct
Distinct(s) == \A i, j \in 1..Len(s) : i # j => s[i] # s[j]

(* C14. Starting from an id-unique initial document, in every state        *)
(* reachable by execute (of commands built by the command factory, each    *)
(* insert with a fresh id), undo and redo (with or without nodeIndex), all *)
(* block ids of the document are pairwise distinct across the whole tree.  *)
DocIdsDistinct == Distinct(blockIds(doc))

\* s is strictly increasing
Increasing(s) == \A k \in 1..(Len(s) - 1) : s[k] < s[k + 1]

\* the history state an operation may change
histState == <<doc, historyNodes, currentIndex>>

(* C13. The derived queries agree with the operations: canUndo =           *)
(* (currentIndex >= 0); canRedo = (candidate set non-empty); redoBranches  *)
(* lists exactly the candidate set in append order, each index paired with *)
(* its node; undo() changes the state iff canUndo, redo() changes the      *)
(* state iff canRedo, and when canRedo is false redo(k) is a no-op for     *)
(* every k.                                                                *)
DerivedQueriesAgree ==
    /\ [](LET rb == redoBranches(historyNodes, currentIndex)
              idx == [k \in 1..Len(rb) |-> rb[k].nodeIndex]
          IN  /\ canUndo(currentIndex) <=> (currentIndex >= 0)
              /\ canRedo(historyNodes, currentIndex) <=>
                     (candidates(historyNodes, currentIndex) # {})
              /\ {idx[k] : k \in 1..Len(idx)} =
                     candidates(historyNodes, currentIndex)
              /\ Increasing(idx)
              /\ \A k \in 1..Len(rb) : rb[k].node = Node(rb[k].nodeIndex))
    /\ [][ /\ lastCall'.op = "undo" =>
                  ((histState' # histState) <=> canUndo(currentIndex))
           /\ (lastCall'.op = "redo" /\ lastCall'.arg = "none") =>
                  ((histState' # histState) <=> canRedo(historyNodes, currentIndex))
           /\ (lastCall'.op = "redo" /\ ~canRedo(historyNodes, currentIndex)) =>
                  histState' = histState
         ]_vars

\* an undo has led back to the initial position, where redoBranches offers
\* two root nodes
DerivedQueriesAgreeWitness ==
    /\ lastCall.op = "undo"
    /\ currentIndex = -1
    /\ ~canUndo(currentIndex)
    /\ canRedo(historyNodes, currentIndex)
    /\ Len(redoBranches(historyNodes, currentIndex)) = 2

----------------------------------------------------------------------------
(* The command factory and the patch engine on their own: a document d is  *)
(* chosen, a factory function is called on it, and the forward and then    *)
(* the inverse patch of the command are applied.                           *)
(*   pDoc   the document the factory was called on                         *)
(*   pFn    the factory function called                                    *)
(*   pArgs  the arguments it was called with (after the document)          *)
(*   pCmd   the command it returned (Null when it returned null)           *)
(*   pFwd   applyPatch(pDoc, pCmd.forward)                                 *)
(*   pInv   applyPatch(pFwd, pCmd.inverse)                                 *)

BlockA == Blk(1, "text", "a", "absent", FALSE, <<>>)

BlockB == Blk(2, "todo", "b", "false", FALSE, <<>>)

BlockC == Blk(3, "text", "c", "absent", FALSE, <<>>)

\* a todo block without a done field
BlockT == Blk(4, "todo", "t", "absent", FALSE, <<>>)

WithChildren(block, children) ==
    [block EXCEPT !.hasChildren = TRUE, !.children = children]

PatchDocs ==
    { <<>>,
      <<BlockA, BlockB, BlockC>>,
      <<WithChildren(BlockA, <<BlockB>>), BlockC>>,
      <<WithChildren(BlockA, <<>>), BlockT>>,
      <<WithChildren(BlockA, <<WithChildren(BlockB, <<BlockC>>)>>)>> }

\* the id generateId() returns to the factory: one no block of PatchDocs has
PatchFreshId == 5

PathIndices == 0..1

PatchPaths ==
    {<<i>> : i \in PathIndices} \cup {<<i, j>> : i \in PathIndices, j \in PathIndices}

PatchParentPaths == {Null, Some(<<>>)} \cup {Some(path) : path \in PatchPaths}

PatchIndices == (-1)..MaxIndex

PatchContents == {"", "xy"}

BlockTypes == {"text", "todo"}

InitPatch ==
    /\ InitHist
    /\ pDoc \in PatchDocs
    /\ pFn = "none"
    /\ pArgs = <<>>
    /\ pCmd = Null
    /\ pFwd = <<>>
    /\ pInv = <<>>
    /\ pStage = "doc"
    /\ InitSideIdle

built(fn, command) ==
    /\ pFn' = fn
    /\ pCmd' = command
    /\ pStage' = IF IsNull(command) THEN "null" ELSE "cmd"
    /\ UNCHANGED <<pFwd, pInv, histVars, sideVars>>

PUpdateContentCommand(path, content) ==
    /\ pStage = "doc"
    /\ built("updateContentCommand", updateContentCommand(pDoc, path, content))
    /\ pArgs' = <<path, content>>
    /\ UNCHANGED pDoc

PToggleTodoCommand(path) ==
    /\ pStage = "doc"
    /\ built("toggleTodoCommand", toggleTodoCommand(pDoc, path))
    /\ pArgs' = <<path>>
    /\ UNCHANGED pDoc

PInsertBlockCommand(parentPath, index, type) ==
    /\ pStage = "doc"
    /\ built("insertBlockCommand",
             Some(insertBlockCommand(parentPath, index, type, PatchFreshId)))
    /\ pArgs' = <<parentPath, index, type>>
    /\ UNCHANGED pDoc

PDeleteBlockCommand(parentPath, index) ==
    /\ pStage = "doc"
    /\ LET r == deleteBlockCommand(pDoc, parentPath, index)
       IN  /\ built("deleteBlockCommand", r.cmd)
           /\ pDoc' = r.doc
    /\ pArgs' = <<parentPath, index>>

PMoveBlockCommand(fromParentPath, fromIndex, toParentPath, toIndex) ==
    /\ pStage = "doc"
    /\ built("moveBlockCommand",
             Some(moveBlockCommand(fromParentPath, fromIndex, toParentPath, toIndex)))
    /\ pArgs' = <<fromParentPath, fromIndex, toParentPath, toIndex>>
    /\ UNCHANGED pDoc

PApplyForward ==
    /\ pStage = "cmd"
    /\ LET r == applyPatchCall(pDoc, Val(pCmd).forward)
       IN  /\ pFwd' = r.result
           /\ pDoc' = r.doc
    /\ pStage' = "fwd"
    /\ UNCHANGED <<pFn, pArgs, pCmd, pInv, histVars, sideVars>>

PApplyInverse ==
    /\ pStage = "fwd"
    /\ LET r == applyPatchCall(pFwd, Val(pCmd).inverse)
       IN  /\ pInv' = r.result
           /\ pFwd' = r.doc
    /\ pStage' = "inv"
    /\ UNCHANGED <<pDoc, pFn, pArgs, pCmd, histVars, sideVars>>

NextPatch ==
    \/ \E path \in PatchPaths, content \in PatchContents :
           PUpdateContentCommand(path, content)
    \/ \E path \in PatchPaths : PToggleTodoCommand(path)
    \/ \E parentPath \in PatchParentPaths, index \in PatchIndices, type \in BlockTypes :
           PInsertBlockCommand(parentPath, index, type)
    \/ \E parentPath \in PatchParentPaths, index \in PatchIndices :
           PDeleteBlockCommand(parentPath, index)
    \/ \E fromParentPath \in PatchParentPaths, fromIndex \in PatchIndices,
          toParentPath \in PatchParentPaths, toIndex \in PatchIndices :
           PMoveBlockCommand(fromParentPath, fromIndex, toParentPath, toIndex)
    \/ PApplyForward
    \/ PApplyInverse

SpecPatch == InitPatch /\ [][NextPatch]_vars

----------------------------------------------------------------------------
\* the document with an empty children array on every block that has none
\* (an absent children array is equivalent to an empty one)
RECURSIVE withChildrenArrays(_)
withChildrenArrays(blocks) ==
    [k \in 1..Len(blocks) |->
        [blocks[k] EXCEPT !.hasChildren = TRUE,
                          !.children = withChildrenArrays(@)]]

\* structural equality of documents
structurallyEqual(a, b) == withChildrenArrays(a) = withChildrenArrays(b)

(* C1. Round-trip law: for every document d and every command c a factory  *)
(* function produces against d, applying c.forward to d and then c.inverse *)
(* to the result gives a document structurally equal to d.                 *)
RoundTripLaw == pStage = "inv" => structurallyEqual(pInv, pDoc)

\* the op of a one-op patch
onlyOp(patch) == patch.ops[1]

\* the location a parent path names: null and [] both name the root array
location(parentPath) == IF IsNull(parentPath) THEN <<>> ELSE Val(parentPath)

\* arr without its element at the 0-based position i
without(arr, i) == SubSeq(arr, 1, i) \o SubSeq(arr, i + 2, Len(arr))

(* C16. Move index adjustment: a move op within one parent array (the      *)
(* source block exists, the destination index is a position of the array)  *)
(* leaves the block at position toIndex-1 when fromIndex < toIndex and at  *)
(* position toIndex when fromIndex > toIndex, and all other blocks keep    *)
(* their relative order.                                                   *)
MoveIndexAdjustment ==
    (pStage = "fwd" /\ pFn = "moveBlockCommand") =>
        LET op == onlyOp(Val(pCmd).forward)
            fromParent == getParentArray(pDoc, op.fromParentPath)
            after == getParentArray(pFwd, op.fromParentPath)
            position == IF op.fromIndex < op.toIndex
                        THEN op.toIndex - 1 ELSE op.toIndex
        IN  ( /\ location(op.fromParentPath) = location(op.toParentPath)
              /\ fromParent.found
              /\ Has(fromParent.arr, op.fromIndex)
              /\ op.fromIndex # op.toIndex
              /\ 0 <= op.toIndex
              /\ op.toIndex <= Len(fromParent.arr) ) =>
                /\ after.found
                /\ Has(after.arr, position)
                /\ At(after.arr, position) = At(fromParent.arr, op.fromIndex)
                /\ without(after.arr, position) =
                       without(fromParent.arr, op.fromIndex)

unresolved(d, op) ==
    IF op.type = "update" THEN IsNull(getBlockAtPath(d, op.path))
    ELSE IF op.type \in {"insert", "delete"}
         THEN ~getParentArray(d, op.parentPath).found
    ELSE LET fromParent == getParentArray(d, op.fromParentPath)
         IN  \/ ~fromParent.found
             \/ ~Has(fromParent.arr, op.fromIndex)
             \/ /\ ~getParentArray(d, op.toParentPath).found
                /\ ~getParentArray(
                        setParentArray(fromParent.doc, op.fromParentPath,
                            spliceDelete(fromParent.arr, op.fromIndex)),
                        op.toParentPath).found

(* C18. An op whose target cannot be resolved is a silent no-op: applying  *)
(* a patch of one such op returns a document equal to the one it was       *)
(* applied to.                                                             *)
UnresolvedOpIsNoOp ==
    (pStage = "fwd" /\ unresolved(pDoc, onlyOp(Val(pCmd).forward))) =>
        structurallyEqual(pFwd, pDoc)

(* C19. Every command factory function is a read-only query: a call of    *)
(* updateContentCommand, toggleTodoCommand or deleteBlockCommand on a      *)
(* document, whether it returns a command or null, leaves the document     *)
(* structurally unchanged, the presence or absence of every block's        *)
(* children array included.                                                *)
FactoryLeavesDoc ==
    [][ ( /\ pStage = "doc"
          /\ pStage' \in {"cmd", "null"}
          /\ pFn' \in {"updateContentCommand", "toggleTodoCommand",
                       "deleteBlockCommand"} ) =>
            pDoc' = pDoc
      ]_vars

\* a block exists at path: every index of the path is a position of the
\* array it indexes, the document first and then the children of the block
\* reached
RECURSIVE blockExists(_, _)
blockExists(blocks, path) ==
    /\ Len(path) >= 1
    /\ 0 <= path[1]
    /\ path[1] < Len(blocks)
    /\ Len(path) > 1 => blockExists(blocks[path[1] + 1].children, Tail(path))

\* the block at path, when one exists
RECURSIVE blockAt(_, _)
blockAt(blocks, path) ==
    IF Len(path) = 1 THEN blocks[path[1] + 1]
    ELSE blockAt(blocks[path[1] + 1].children, Tail(path))

(* C20. Factory failure sentinels: updateContentCommand returns null iff   *)
(* no block exists at path; toggleTodoCommand returns null iff no block    *)
(* exists at path or the block is not of type todo; deleteBlockCommand     *)
(* returns null iff the parent array cannot be located or it has no block  *)
(* at index; insertBlockCommand and moveBlockCommand never return null.    *)
FactorySentinels ==
    [][ (pStage = "doc" /\ pStage' \in {"cmd", "null"}) =>
            /\ pFn' = "updateContentCommand" =>
                   (IsNull(pCmd') <=> ~blockExists(pDoc, pArgs'[1]))
            /\ pFn' = "toggleTodoCommand" =>
                   (IsNull(pCmd') <=>
                        \/ ~blockExists(pDoc, pArgs'[1])
                        \/ blockAt(pDoc, pArgs'[1]).type # "todo")
            /\ pFn' = "deleteBlockCommand" =>
                   (IsNull(pCmd') <=>
                        ~blockExists(pDoc, location(pArgs'[1]) \o <<pArgs'[2]>>))
            /\ pFn' \in {"insertBlockCommand", "moveBlockCommand"} =>
                   ~IsNull(pCmd')
      ]_vars

\* toggleTodoCommand has returned null for a block that exists and is not
\* a todo
FactorySentinelsWitness ==
    /\ pStage = "null"
    /\ pFn = "toggleTodoCommand"
    /\ blockExists(pDoc, pArgs[1])
    /\ blockAt(pDoc, pArgs[1]).type = "text"

\* parentPath names an array of d: the root, or the children of a block
\* that exists
parentResolves(d, parentPath) ==
    Len(location(parentPath)) = 0 \/ blockExists(d, location(parentPath))

\* the array parentPath names in d (empty when the block has no children
\* array)
arrayAt(d, parentPath) ==
    IF Len(location(parentPath)) = 0 THEN d
    ELSE blockAt(d, location(parentPath)).children

\* the array parentPath names exists in d as it is
arrayPresent(d, parentPath) ==
    Len(location(parentPath)) = 0 \/ blockAt(d, location(parentPath)).hasChildren

idSet(blocks) == {blockIds(blocks)[k] : k \in 1..Len(blockIds(blocks))}

(* C22. The inverse of an insertBlockCommand deletes exactly the block its *)
(* forward patch inserted and no other block, for whatever index the       *)
(* caller supplied: after forward then inverse the document contains no    *)
(* block with the new id and every block that was there before.            *)
InsertInverseDeletesInserted ==
    (pStage = "inv" /\ pFn = "insertBlockCommand") =>
        /\ PatchFreshId \notin idSet(pInv)
        /\ idSet(pDoc) \subseteq idSet(pInv)

----------------------------------------------------------------------------
(* Validator (lib/validation): validateDocument.  An error is a record    *)
(* [type, blockId]; ids are positive numbers standing for the non-empty    *)
(* strings of the source.                                                  *)

\* BlockArraySchema.safeParse(blocks).success
RECURSIVE BlockArraySchemaOk(_)
BlockArraySchemaOk(blocks) ==
    \A k \in 1..Len(blocks) :
        /\ blocks[k].id >= 1
        /\ blocks[k].type \in BlockTypes
        /\ blocks[k].done \in {"absent", "false", "true"}
        /\ blocks[k].hasChildren => BlockArraySchemaOk(blocks[k].children)

\* validateBlocks forgetting, after a block, the ids seen below it
RECURSIVE validateBlocksPerSubtree(_, _)
validateBlocksPerSubtree(blocks, seenIds) ==
    IF Len(blocks) = 0 THEN [errors |-> <<>>, seenIds |-> seenIds]
    ELSE LET block == Head(blocks)
             own == IF block.id \in seenIds
                    THEN <<[type |-> "duplicate_id", blockId |-> block.id]>>
                    ELSE <<>>
             below == IF block.hasChildren
                      THEN validateBlocksPerSubtree(block.children,
                                                    seenIds \cup {block.id})
                      ELSE [errors |-> <<>>, seenIds |-> seenIds \cup {block.id}]
             rest == validateBlocksPerSubtree(Tail(blocks),
                                              seenIds \cup {block.id})
         IN  [errors |-> own \o below.errors \o rest.errors,
              seenIds |-> rest.seenIds]

\* blocks.forEach(validateBlock): the errors pushed and the ids seen, given
\* the ids seen before
RECURSIVE validateBlocks(_, _)
validateBlocks(blocks, seenIds) ==
    IF Len(blocks) = 0 THEN [errors |-> <<>>, seenIds |-> seenIds]
    ELSE LET block == Head(blocks)
             own == IF block.id \in seenIds
                    THEN <<[type |-> "duplicate_id", blockId |-> block.id]>>
                    ELSE <<>>
             below == IF block.hasChildren
                      THEN validateBlocks(block.children, seenIds \cup {block.id})
                      ELSE [errors |-> <<>>, seenIds |-> seenIds \cup {block.id}]
             rest == validateBlocks(Tail(blocks), below.seenIds)
         IN  [errors |-> own \o below.errors \o rest.errors,
              seenIds |-> rest.seenIds]

validateDocument(d) ==
    IF ~BlockArraySchemaOk(d)
    THEN [isValid |-> FALSE, errors |-> <<[type |-> "schema_error", blockId |-> 0]>>]
    ELSE LET errors == validateBlocks(d, {}).errors
         IN  [isValid |-> Len(errors) = 0, errors |-> errors]

----------------------------------------------------------------------------
(* Sequences of structural edits: starting from a document d with pairwise *)
(* distinct ids, insertBlockCommand, moveBlockCommand and                  *)
(* deleteBlockCommand are called on the current document and the forward   *)
(* patch of the command is applied to it.  pDoc is the current document,   *)
(* pFn the factory function called last, idCounter the next fresh id.      *)

\* the number of blocks a sequence may insert
MaxInserts == 1

SeqParentPaths == {Null, Some(<<0>>), Some(<<0, 0>>)}

SeqIndices == 0..1

\* the documents a sequence starts from
SeqDocs ==
    { <<BlockA, BlockB>>,
      <<WithChildren(BlockA, <<BlockB>>), BlockC>> }

\* the type of the blocks a sequence inserts
SeqTypes == {"text"}

InitSeq ==
    /\ doc = InitialDoc
    /\ historyNodes = <<>>
    /\ currentIndex = -1
    /\ lastCall = Call("init", Null, "none")
    /\ idCounter = PatchFreshId
    /\ pDoc \in SeqDocs
    /\ pFn = "none"
    /\ pArgs = <<>>
    /\ pCmd = Null
    /\ pFwd = <<>>
    /\ pInv = <<>>
    /\ pStage = "seq"
    /\ InitSideIdle

seqFrame ==
    <<doc, historyNodes, currentIndex, lastCall, pArgs, pCmd, pFwd, pInv, pStage,
      sideVars>>

SeqInsert(parentPath, index, type) ==
    /\ pStage = "seq"
    /\ idCounter < PatchFreshId + MaxInserts
    /\ pDoc' = applyPatch(pDoc,
                    insertBlockCommand(parentPath, index, type, idCounter).forward)
    /\ idCounter' = idCounter + 1
    /\ pFn' = "insertBlockCommand"
    /\ UNCHANGED seqFrame

SeqMove(fromParentPath, fromIndex, toParentPath, toIndex) ==
    /\ pStage = "seq"
    /\ pDoc' = applyPatch(pDoc,
                    moveBlockCommand(fromParentPath, fromIndex,
                                     toParentPath, toIndex).forward)
    /\ pFn' = "moveBlockCommand"
    /\ UNCHANGED <<idCounter, seqFrame>>

SeqDelete(parentPath, index) ==
    /\ pStage = "seq"
    /\ LET r == deleteBlockCommand(pDoc, parentPath, index)
       IN  pDoc' = IF IsNull(r.cmd) THEN r.doc
                   ELSE applyPatch(r.doc, Val(r.cmd).forward)
    /\ pFn' = "deleteBlockCommand"
    /\ UNCHANGED <<idCounter, seqFrame>>

NextSeq ==
    \/ \E parentPath \in SeqParentPaths, index \in SeqIndices, type \in SeqTypes :
           SeqInsert(parentPath, index, type)
    \/ \E fromParentPath \in SeqParentPaths, fromIndex \in SeqIndices,
          toParentPath \in SeqParentPaths, toIndex \in SeqIndices :
           SeqMove(fromParentPath, fromIndex, toParentPath, toIndex)
    \/ \E parentPath \in SeqParentPaths, index \in SeqIndices :
           SeqDelete(parentPath, index)

SpecSeq == InitSeq /\ [][NextSeq]_vars

(* C15. Duplicate-id invariant: starting from an id-unique document, after *)
(* applying the forward patches of any sequence of commands built by       *)
(* insertBlockCommand, moveBlockCommand and deleteBlockCommand (each       *)
(* insert with a fresh id), validateDocument reports no duplicate_id       *)
(* error.                                                                  *)
NoDuplicateIdErrors ==
    pStage = "seq" =>
        LET errors == validateDocument(pDoc).errors
        IN  \A k \in 1..Len(errors) : errors[k].type # "duplicate_id"

\* an inserted block lies below a block of the initial document, and a
\* delete has been applied since
NoDuplicateIdErrorsWitness ==
    /\ pStage = "seq"
    /\ pFn = "deleteBlockCommand"
    /\ \E k \in 1..Len(pDoc) :
           /\ pDoc[k].id < PatchFreshId
           /\ \E j \in 1..Len(pDoc[k].children) :
                  pDoc[k].children[j].id = PatchFreshId
    /\ validateDocument(pDoc).isValid

----------------------------------------------------------------------------
(* Persistence (lib/persistence): saveEditorState, loadEditorState and      *)
(* clearEditorState on the one localStorage key.                            *)
(*   storage  the item under the key: Null, or Some of                      *)
(*            [parses, value], value = Some(envelope) iff the text parses   *)
(*   loaded   what the last loadEditorState returned                        *)
(*   sCall    the last call: its name, its arguments (of saveEditorState),  *)
(*            the item under the key before it,                             *)
(*            and whether it wrote the key                                  *)
(* An envelope is [doc, historyNodes, currentIndex, cursor, version]; a     *)
(* cursor is Null or Some([blockId, selectionStart, selectionEnd]).         *)

STORAGE_VERSION == 1

\* JSON.stringify(state)
JSONstringify(state) == [parses |-> TRUE, value |-> Some(state)]

\* JSON.parse(stored): ok is FALSE when it throws
JSONparse(stored) == [ok |-> stored.parses, value |-> stored.value]

PathSchemaOk(path) == \A k \in 1..Len(path) : path[k] >= 0

NullablePathSchemaOk(path) == IsNull(path) \/ PathSchemaOk(Val(path))

PatchOpSchemaOk(op) ==
    CASE op.type = "update" ->
            /\ PathSchemaOk(op.path)
            /\ op.field \in {"content", "done"}
            /\ op.field = "done" =>
                   op.value \in {"true", "false"} /\ op.oldValue \in {"true", "false"}
      [] op.type = "insert" ->
            /\ NullablePathSchemaOk(op.parentPath)
            /\ op.index >= 0
            /\ BlockArraySchemaOk(<<op.block>>)
      [] op.type = "delete" ->
            /\ NullablePathSchemaOk(op.parentPath)
            /\ op.index >= 0
            /\ BlockArraySchemaOk(<<op.deleted>>)
      [] op.type = "move" ->
            /\ NullablePathSchemaOk(op.fromParentPath)
            /\ op.fromIndex >= 0
            /\ NullablePathSchemaOk(op.toParentPath)
            /\ op.toIndex >= 0
      [] OTHER -> FALSE

PatchSchemaOk(patch) == \A k \in 1..Len(patch.ops) : PatchOpSchemaOk(patch.ops[k])

\* HistoryNodesSchema.safeParse(nodes).success
HistoryNodesSchemaOk(nodes) ==
    \A k \in 1..Len(nodes) :
        /\ PatchSchemaOk(nodes[k].command.forward)
        /\ PatchSchemaOk(nodes[k].command.inverse)
        /\ \A j \in 1..Len(nodes[k].branches) : nodes[k].branches[j] >= 0

\* CursorPositionSchema.safeParse(cursor).success
CursorPositionSchemaOk(cursor) ==
    IsNull(cursor) \/ ( /\ Val(cursor).blockId >= 1
                        /\ Val(cursor).selectionStart >= 0
                        /\ Val(cursor).selectionEnd >= 0 )

\* PersistedStateSchema.safeParse(state).success
PersistedStateSchemaOk(state) ==
    /\ BlockArraySchemaOk(state.doc)
    /\ HistoryNodesSchemaOk(state.historyNodes)
    /\ CursorPositionSchemaOk(state.cursor)
    /\ state.version >= 1

stripTransientFlags(block) == [block EXCEPT !.autoFocus = FALSE]

RECURSIVE stripTransientFlagsFromBlocks(_)
stripTransientFlagsFromBlocks(blocks) ==
    [k \in 1..Len(blocks) |->
        [stripTransientFlags(blocks[k]) EXCEPT
            !.children = IF blocks[k].hasChildren
                         THEN stripTransientFlagsFromBlocks(@) ELSE @]]

stripForwardOp(op) ==
    IF op.type = "insert" THEN [op EXCEPT !.block = stripTransientFlags(@)]
    ELSE op

stripInverseOp(op) ==
    IF op.type = "insert" THEN [op EXCEPT !.block = stripTransientFlags(@)]
    ELSE IF op.type = "delete" THEN [op EXCEPT !.deleted = stripTransientFlags(@)]
    ELSE op

stripTransientFlagsFromHistory(nodes) ==
    [k \in 1..Len(nodes) |->
        [nodes[k] EXCEPT
            !.command = [forward |-> [ops |-> [j \in 1..Len(@.forward.ops) |->
                                                  stripForwardOp(@.forward.ops[j])]],
                         inverse |-> [ops |-> [j \in 1..Len(@.inverse.ops) |->
                                                  stripInverseOp(@.inverse.ops[j])]]]]]

\* saveEditorState storing no cursor
saveEditorStateWithoutCursor(stored, d, nodes, cur, cursor) ==
    LET state == [doc |-> stripTransientFlagsFromBlocks(d),
                  historyNodes |-> stripTransientFlagsFromHistory(nodes),
                  currentIndex |-> cur,
                  cursor |-> Null,
                  version |-> STORAGE_VERSION]
    IN  IF ~PersistedStateSchemaOk(state)
        THEN [storage |-> stored, wrote |-> FALSE]
        ELSE [storage |-> Some(JSONstringify(state)), wrote |-> TRUE]

\* saveEditorState writing without validating
saveEditorStateUnvalidated(stored, d, nodes, cur, cursor) ==
    LET state == [doc |-> stripTransientFlagsFromBlocks(d),
                  historyNodes |-> stripTransientFlagsFromHistory(nodes),
                  currentIndex |-> cur,
                  cursor |-> cursor,
                  version |-> STORAGE_VERSION]
    IN  [storage |-> Some(JSONstringify(state)), wrote |-> TRUE]

\* saveEditorState(doc, historyNodes, currentIndex, cursor) with the item
\* `stored` under the key: the item under the key afterwards
saveEditorState(stored, d, nodes, cur, cursor) ==
    LET state == [doc |-> stripTransientFlagsFromBlocks(d),
                  historyNodes |-> stripTransientFlagsFromHistory(nodes),
                  currentIndex |-> cur,
                  cursor |-> cursor,
                  version |-> STORAGE_VERSION]
    IN  IF ~PersistedStateSchemaOk(state)
        THEN [storage |-> stored, wrote |-> FALSE]
        ELSE [storage |-> Some(JSONstringify(state)), wrote |-> TRUE]

\* localStorage.removeItem(key)
clearEditorState(stored) == Null

\* loadEditorState that does not compare versions
loadEditorStateAnyVersion(stored) ==
    IF IsNull(stored) THEN [result |-> Null, storage |-> stored]
    ELSE LET parsed == JSONparse(Val(stored))
         IN  IF ~parsed.ok
             THEN [result |-> Null, storage |-> clearEditorState(stored)]
             ELSE IF ~PersistedStateSchemaOk(Val(parsed.value))
             THEN [result |-> Null, storage |-> clearEditorState(stored)]
             ELSE [result |-> parsed.value, storage |-> stored]

\* loadEditorState that leaves an item failing the schema under the key
loadEditorStateKeepingInvalid(stored) ==
    IF IsNull(stored) THEN [result |-> Null, storage |-> stored]
    ELSE LET parsed == JSONparse(Val(stored))
         IN  IF ~parsed.ok
             THEN [result |-> Null, storage |-> clearEditorState(stored)]
             ELSE IF ~PersistedStateSchemaOk(Val(parsed.value))
             THEN [result |-> Null, storage |-> stored]
             ELSE IF Val(parsed.value).version # STORAGE_VERSION
             THEN [result |-> Null, storage |-> stored]
             ELSE [result |-> parsed.value, storage |-> stored]

\* loadEditorState() with the item `stored` under the key: the value
\* returned and the item under the key afterwards
loadEditorState(stored) ==
    IF IsNull(stored) THEN [result |-> Null, storage |-> stored]
    ELSE LET parsed == JSONparse(Val(stored))
         IN  IF ~parsed.ok
             THEN [result |-> Null, storage |-> clearEditorState(stored)]
             ELSE IF ~PersistedStateSchemaOk(Val(parsed.value))
             THEN [result |-> Null, storage |-> clearEditorState(stored)]
             ELSE IF Val(parsed.value).version # STORAGE_VERSION
             THEN [result |-> Null, storage |-> stored]
             ELSE [result |-> parsed.value, storage |-> stored]

\* the editor state after execute(command) in editor state e
afterExecute(e, command) ==
    LET r == addHistoryNode(e.historyNodes, e.currentIndex, command)
    IN  [doc |-> applyPatch(e.doc, command.forward),
         historyNodes |-> r.nodes,
         currentIndex |-> r.newIndex]

EditorStart == [doc |-> InitialDoc, historyNodes |-> <<>>, currentIndex |-> -1]

\* insertBlock(null, 1, 'text')
EditorInserted ==
    afterExecute(EditorStart, insertBlockCommand(Null, 1, "text", FirstFreshId))

\* ... then deleteBlock(null, 1)
EditorInsertedDeleted ==
    afterExecute(EditorInserted,
                 Val(deleteBlockCommand(EditorInserted.doc, Null, 1).cmd))

\* insertBlock([0], 0, 'todo')
EditorNested ==
    afterExecute(EditorStart,
                 insertBlockCommand(Some(<<0>>), 0, "todo", FirstFreshId))

\* ... then deleteBlock(null, 0)
EditorNestedDeleted ==
    afterExecute(EditorNested,
                 Val(deleteBlockCommand(EditorNested.doc, Null, 0).cmd))

\* updateContent([0], 'xy')
EditorUpdated ==
    afterExecute(EditorStart, Val(updateContentCommand(InitialDoc, <<0>>, "xy")))

\* insertBlock(null, -1, 'text')
EditorInsertedBeforeLast ==
    afterExecute(EditorStart, insertBlockCommand(Null, -1, "text", FirstFreshId))

\* ... then moveBlock(null, 0, null, 1)
EditorUpdatedMoved ==
    afterExecute(EditorUpdated, moveBlockCommand(Null, 0, Null, 1))

\* a document whose one block has the empty string as id
EmptyIdDoc == << Blk(0, "text", "a", "absent", FALSE, <<>>) >>

\* the editor states saveEditorState is called with
SaveStates ==
    { EditorStart, EditorInserted, EditorInsertedDeleted, EditorNested,
      EditorNestedDeleted, EditorUpdated, EditorUpdatedMoved,
      EditorInsertedBeforeLast, [EditorStart EXCEPT !.doc = EmptyIdDoc] }

SaveCursors ==
    { Null, Some([blockId |-> 1, selectionStart |-> 0, selectionEnd |-> 1]) }

Envelope(e, version) ==
    [doc |-> e.doc, historyNodes |-> e.historyNodes,
     currentIndex |-> e.currentIndex, cursor |-> Null, version |-> version]

\* what the key may hold when the editor starts: nothing, a text that is
\* not JSON, and envelopes of this and of other versions, schema-valid or
\* not
InitialItems ==
    { Null, Some([parses |-> FALSE, value |-> Null]) }
    \cup { Some(JSONstringify(Envelope(e, version))) :
               e \in { EditorStart, EditorUpdated,
                       [EditorStart EXCEPT !.doc = EmptyIdDoc] },
               version \in 0..2 }

InitStore ==
    /\ InitHist /\ InitPatchIdle
    /\ InitValidIdle /\ InitCursorIdle /\ InitLinearIdle /\ InitReplayIdle /\ InitDebounceIdle
    /\ storage \in InitialItems
    /\ loaded = Null
    /\ sCall = [fn |-> "none", args |-> Null, before |-> Null, wrote |-> FALSE]
    /\ otherItems = [key \in {"editor-state"} |-> Null]

storeFrame ==
    <<histVars, patchVars, otherItems, vInput, vResult, cursorPosition,
      linear, executedOn,
      timeoutRef, timers, invoked, dCall>>

SaveEditorState(e, cursor) ==
    /\ LET r == saveEditorState(storage, e.doc, e.historyNodes,
                                e.currentIndex, cursor)
       IN  /\ storage' = r.storage
           /\ sCall' = [fn |-> "saveEditorState",
                        args |-> Some([doc |-> e.doc,
                                       historyNodes |-> e.historyNodes,
                                       currentIndex |-> e.currentIndex,
                                       cursor |-> cursor]),
                        before |-> storage,
                        wrote |-> r.wrote]
    /\ UNCHANGED <<loaded, storeFrame>>

LoadEditorState ==
    /\ LET r == loadEditorState(storage)
       IN  /\ storage' = r.storage
           /\ loaded' = r.result
    /\ sCall' = [fn |-> "loadEditorState", args |-> Null, before |-> storage,
                 wrote |-> FALSE]
    /\ UNCHANGED storeFrame

ClearEditorState ==
    /\ storage' = clearEditorState(storage)
    /\ sCall' = [fn |-> "clearEditorState", args |-> Null, before |-> storage,
                 wrote |-> FALSE]
    /\ UNCHANGED <<loaded, storeFrame>>

NextStore ==
    \/ \E e \in SaveStates, cursor \in SaveCursors : SaveEditorState(e, cursor)
    \/ LoadEditorState
    \/ ClearEditorState

SpecStore == InitStore /\ [][NextStore]_vars

\* the last call was loadEditorState and found an item under the key
loadedItem == sCall.fn = "loadEditorState" /\ ~IsNull(sCall.before)

\* the item loadEditorState found
itemBefore == Val(sCall.before)

\* the item parses and carries a version other than the current one
versionDiffers(item) ==
    item.parses /\ Val(item.value).version # STORAGE_VERSION

\* the item does not parse, or parses to a value failing the schema
invalidItem(item) ==
    ~item.parses \/ ~PersistedStateSchemaOk(Val(item.value))

(* C23. Version gate: loadEditorState returns null whenever the stored     *)
(* envelope's version differs from the current storage version, even if    *)
(* the envelope is otherwise well-formed.                                  *)
VersionGate ==
    (loadedItem /\ versionDiffers(itemBefore)) => IsNull(loaded)

\* a schema-valid envelope of another version was loaded
VersionGateWitness ==
    /\ loadedItem
    /\ versionDiffers(itemBefore)
    /\ ~invalidItem(itemBefore)
    /\ IsNull(loaded)

(* C24. On load, any failure - unparseable JSON, schema-validation failure *)
(* or version mismatch - discards the stored envelope: loadEditorState     *)
(* returns null and afterwards the key holds no envelope.                  *)
LoadFailureDiscards ==
    (loadedItem /\ (invalidItem(itemBefore) \/ versionDiffers(itemBefore))) =>
        IsNull(loaded) /\ IsNull(storage)

(* C24, amended. On load, any failure makes loadEditorState return null;   *)
(* an item that is not JSON or fails the schema is removed from the key,   *)
(* a schema-valid envelope of another version stays under the key.         *)
LoadFailureReturnsNull ==
    (loadedItem /\ (invalidItem(itemBefore) \/ versionDiffers(itemBefore))) =>
        /\ IsNull(loaded)
        /\ IF invalidItem(itemBefore) THEN IsNull(storage)
           ELSE storage = sCall.before

\* an envelope failing the schema was loaded and removed
LoadFailureReturnsNullWitness ==
    /\ loadedItem
    /\ itemBefore.parses
    /\ invalidItem(itemBefore)
    /\ IsNull(loaded)
    /\ IsNull(storage)

RECURSIVE hasAutoFocus(_)
\* some block of the array, at any depth, carries the autoFocus flag
hasAutoFocus(blocks) ==
    \E k \in 1..Len(blocks) :
        blocks[k].autoFocus \/ hasAutoFocus(blocks[k].children)

\* some block embedded in an insert or delete op of the patch carries it
patchHasAutoFocus(patch) ==
    \E k \in 1..Len(patch.ops) :
        \/ patch.ops[k].type = "insert" /\ hasAutoFocus(<<patch.ops[k].block>>)
        \/ patch.ops[k].type = "delete" /\ hasAutoFocus(<<patch.ops[k].deleted>>)

envelopeHasAutoFocus(state) ==
    \/ hasAutoFocus(state.doc)
    \/ \E k \in 1..Len(state.historyNodes) :
           \/ patchHasAutoFocus(state.historyNodes[k].command.forward)
           \/ patchHasAutoFocus(state.historyNodes[k].command.inverse)

(* C25. After saveEditorState has written the key, the stored envelope     *)
(* holds no autoFocus flag: not on a block of doc at any depth, and not on *)
(* a block, or a descendant of a block, embedded in an insert or delete op *)
(* of the forward or inverse patch of a history node.                      *)
SavedWithoutAutoFocus ==
    (sCall.fn = "saveEditorState" /\ sCall.wrote) =>
        /\ ~IsNull(storage)
        /\ ~envelopeHasAutoFocus(Val(Val(storage).value))

----------------------------------------------------------------------------
(* Validator (lib/validation): validateHistory and validateCursor.  The    *)
(* nodes validateHistory is given carry their timestamp:                   *)
(*   [command, parentIndex, branches, timestamp].                          *)
(* An error is [type, message, nodeIndex, value]: message is the fixed     *)
(* part of the source's message, nodeIndex and value come from details     *)
(* (nodeIndex is -1 where the source has none).                            *)

\* the clock skew validateHistory tolerates, in milliseconds
ClockSkewMs == 60000

RECURSIVE concat(_)
\* the push calls of a forEach, in order
concat(seqs) == IF Len(seqs) = 0 THEN <<>> ELSE Head(seqs) \o concat(Tail(seqs))

HistoryError(type, message, nodeIndex, value) ==
    [type |-> type, message |-> message, nodeIndex |-> nodeIndex, value |-> value]

\* the timestamp part of HistoryNodesSchema.safeParse(nodes).success
TimestampSchemaOk(nodes) == \A k \in 1..Len(nodes) : nodes[k].timestamp >= 1

\* the first forEach of validateHistory, for the node at index
nodeErrors(nodes, index, now) ==
    LET node == At(nodes, index)
        parent ==
            IF IsNull(node.parentIndex) THEN <<>>
            ELSE IF Val(node.parentIndex) < 0
                    \/ Val(node.parentIndex) >= Len(nodes)
            THEN <<HistoryError("invalid_history", "Invalid parent index",
                                index, Val(node.parentIndex))>>
            ELSE IF Val(node.parentIndex) >= index
            THEN <<HistoryError("invalid_history",
                                "Parent index must be less than current index (no cycles)",
                                index, Val(node.parentIndex))>>
            ELSE <<>>
        branches ==
            concat([j \in 1..Len(node.branches) |->
                IF node.branches[j] < 0 \/ node.branches[j] >= Len(nodes)
                THEN <<HistoryError("invalid_history", "Invalid branch index",
                                    index, node.branches[j])>>
                ELSE <<>>])
        timestamp ==
            IF node.timestamp > now + ClockSkewMs
            THEN <<HistoryError("invalid_history",
                                "Timestamp is too far in the future",
                                index, node.timestamp)>>
            ELSE <<>>
    IN  parent \o branches \o timestamp

\* the second forEach of validateHistory, for the node at index
orphanErrors(nodes, index) ==
    LET node == At(nodes, index)
    IN  concat([j \in 1..Len(node.branches) |->
            IF /\ Has(nodes, node.branches[j])
               /\ At(nodes, node.branches[j]).parentIndex # Some(index)
            THEN <<HistoryError("orphaned_parent",
                                "Branch doesn't point back to parent",
                                index, node.branches[j])>>
            ELSE <<>>])

\* validateHistory without its second forEach
validateHistoryNoOrphans(nodes, cur, now) ==
    IF ~(HistoryNodesSchemaOk(nodes) /\ TimestampSchemaOk(nodes))
    THEN [isValid |-> FALSE,
          errors |-> <<HistoryError("schema_error", "", -1, 0)>>]
    ELSE LET current ==
                 IF cur < -1 \/ cur >= Len(nodes)
                 THEN <<HistoryError("invalid_history", "Invalid current index",
                                     -1, cur)>>
                 ELSE <<>>
             errors ==
                 current
                 \o concat([k \in 1..Len(nodes) |->
                               nodeErrors(nodes, k - 1, now)])
         IN  [isValid |-> Len(errors) = 0, errors |-> errors]

\* validateHistory(nodes, currentIndex), Date.now() returning now
validateHistory(nodes, cur, now) ==
    IF ~(HistoryNodesSchemaOk(nodes) /\ TimestampSchemaOk(nodes))
    THEN [isValid |-> FALSE,
          errors |-> <<HistoryError("schema_error", "", -1, 0)>>]
    ELSE LET current ==
                 IF cur < -1 \/ cur >= Len(nodes)
                 THEN <<HistoryError("invalid_history", "Invalid current index",
                                     -1, cur)>>
                 ELSE <<>>
             errors ==
                 current
                 \o concat([k \in 1..Len(nodes) |->
                               nodeErrors(nodes, k - 1, now)])
                 \o concat([k \in 1..Len(nodes) |->
                               orphanErrors(nodes, k - 1)])
         IN  [isValid |-> Len(errors) = 0, errors |-> errors]

\* findBlockById looking at the top level only
findBlockByIdTopLevel(blocks, blockId) ==
    IF \E k \in 1..Len(blocks) : blocks[k].id = blockId
    THEN Some(blocks[CHOOSE k \in 1..Len(blocks) :
                        /\ blocks[k].id = blockId
                        /\ \A j \in 1..(k - 1) : blocks[j].id # blockId])
    ELSE Null

RECURSIVE findBlockById(_, _)
findBlockById(blocks, blockId) ==
    IF Len(blocks) = 0 THEN Null
    ELSE LET block == Head(blocks)
         IN  IF block.id = blockId THEN Some(block)
             ELSE LET found == IF block.hasChildren
                               THEN findBlockById(block.children, blockId)
                               ELSE Null
                  IN  IF ~IsNull(found) THEN found
                      ELSE findBlockById(Tail(blocks), blockId)

CursorError(type, message) == [type |-> type, message |-> message]

validateCursor(cursor, d) ==
    IF IsNull(cursor) THEN [isValid |-> TRUE, errors |-> <<>>]
    ELSE IF ~CursorPositionSchemaOk(cursor)
    THEN [isValid |-> FALSE, errors |-> <<CursorError("schema_error", "")>>]
    ELSE LET c == Val(cursor)
             blockFound == findBlockById(d, c.blockId)
             errors ==
                 IF IsNull(blockFound)
                 THEN <<CursorError("invalid_cursor",
                                    "Cursor references non-existent block")>>
                 ELSE LET contentLength == Len(Val(blockFound).content)
                      IN  (IF c.selectionStart > contentLength
                           THEN <<CursorError("invalid_cursor",
                                   "Cursor selectionStart exceeds content length")>>
                           ELSE <<>>)
                          \o (IF c.selectionEnd > contentLength
                              THEN <<CursorError("invalid_cursor",
                                      "Cursor selectionEnd exceeds content length")>>
                              ELSE <<>>)
                          \o (IF c.selectionStart > c.selectionEnd
                              THEN <<CursorError("invalid_cursor",
                                      "Cursor selectionStart cannot be greater than selectionEnd")>>
                              ELSE <<>>)
         IN  [isValid |-> Len(errors) = 0, errors |-> errors]

----------------------------------------------------------------------------
(* The validators as functions of their arguments.  vInput is a call       *)
(* [fn, doc, nodes, currentIndex, cursor, now] (now is what Date.now()     *)
(* returns during the call), vResult is Null before the call and Some of   *)
(* the ValidationResult after it.                                          *)

\* the most nodes of a validated history
MaxHistory == 2

\* the largest id of a block of a validated document (0 is the empty string)
MaxId == 2

\* the largest selection bound of a validated cursor
MaxSelection == 3

\* what Date.now() returns
Now == 1000

EmptyCommand == [forward |-> [ops |-> <<>>], inverse |-> [ops |-> <<>>]]

ValidatorCall(fn, d, nodes, cur, cursor) ==
    [fn |-> fn, doc |-> d, nodes |-> nodes, currentIndex |-> cur,
     cursor |-> cursor, now |-> Now]

\* parentIndex and branches of a schema-valid node
NodeShapes ==
    { [parentIndex |-> p, branches |-> b] :
          p \in {Null} \cup {Some(i) : i \in (-1)..(MaxHistory - 1)},
          b \in {<<>>, <<0, 1>>} \cup {<<x>> : x \in 0..(MaxHistory - 1)} }

ValidatorNode(shape, timestamp) ==
    [command |-> EmptyCommand, parentIndex |-> shape.parentIndex,
     branches |-> shape.branches, timestamp |-> timestamp]

\* a history of n schema-valid nodes; late is the number of the node
\* stamped later than the tolerated skew, 0 for none
HistoryInput(n, shapes, late, cur) ==
    ValidatorCall("validateHistory", <<>>,
        [k \in 1..n |->
            ValidatorNode(shapes[k],
                IF k = late THEN Now + ClockSkewMs + 1 ELSE Now + ClockSkewMs)],
        cur, Null)

\* two histories failing the schema: a negative branch index, a timestamp
\* that is not positive
SchemaInvalidHistoryInputs ==
    { ValidatorCall("validateHistory", <<>>, <<node>>, 0, Null) :
          node \in { ValidatorNode([parentIndex |-> Null, branches |-> <<-1>>], Now),
                     ValidatorNode([parentIndex |-> Null, branches |-> <<>>], 0) } }

Leaf(id) == Blk(id, "text", "a", "absent", FALSE, <<>>)

Leaves == {Leaf(id) : id \in 0..MaxId}

ChildLists ==
    {<<>>} \cup {<<a>> : a \in Leaves} \cup {<<a, b>> : a, b \in Leaves}

ValidatorBlocks ==
    Leaves \cup {WithChildren(a, c) : a \in Leaves, c \in ChildLists}

\* documents of blocks with ids drawn from 0..MaxId, two levels deep, and
\* one where an id repeats down one path
ValidatorDocs ==
    {<<>>} \cup {<<a>> : a \in ValidatorBlocks}
    \cup {<<a, b>> : a, b \in ValidatorBlocks}
    \cup { << WithChildren(Leaf(1), <<WithChildren(Leaf(1), <<Leaf(1)>>)>>) >> }

DocumentInputs ==
    { ValidatorCall("validateDocument", d, <<>>, -1, Null) : d \in ValidatorDocs }

CursorDocs ==
    { <<>>,
      << WithChildren(Blk(1, "text", "xy", "absent", FALSE, <<>>),
                      << Blk(2, "todo", "b", "false", FALSE, <<>>) >>),
         Blk(3, "text", "", "absent", FALSE, <<>>) >> }

Cursors ==
    {Null} \cup { Some([blockId |-> b, selectionStart |-> st, selectionEnd |-> en]) :
                      b \in 0..4,
                      st \in (-1)..MaxSelection,
                      en \in (-1)..MaxSelection }

CursorInputs ==
    { ValidatorCall("validateCursor", d, <<>>, -1, cursor) :
          d \in CursorDocs, cursor \in Cursors }

InitValid ==
    /\ InitHist /\ InitPatchIdle
    /\ InitStoreIdle /\ InitCursorIdle /\ InitLinearIdle /\ InitReplayIdle /\ InitDebounceIdle
    /\ \/ vInput \in DocumentInputs \cup SchemaInvalidHistoryInputs \cup CursorInputs
       \/ \E n \in 0..MaxHistory :
              \E shapes \in [1..n -> NodeShapes], late \in 0..n,
                 cur \in {-2, -1, n - 1, n} :
                  vInput = HistoryInput(n, shapes, late, cur)
    /\ vResult = Null

validFrame ==
    <<histVars, patchVars, storage, loaded, sCall, otherItems, cursorPosition, linear,
      executedOn,
      timeoutRef, timers, invoked, dCall, vInput>>

ValidateDocument ==
    /\ vInput.fn = "validateDocument"
    /\ IsNull(vResult)
    /\ vResult' = Some(validateDocument(vInput.doc))
    /\ UNCHANGED validFrame

ValidateHistory ==
    /\ vInput.fn = "validateHistory"
    /\ IsNull(vResult)
    /\ vResult' = Some(validateHistory(vInput.nodes, vInput.currentIndex,
                                       vInput.now))
    /\ UNCHANGED validFrame

ValidateCursor ==
    /\ vInput.fn = "validateCursor"
    /\ IsNull(vResult)
    /\ vResult' = Some(validateCursor(vInput.cursor, vInput.doc))
    /\ UNCHANGED validFrame

NextValid == ValidateDocument \/ ValidateHistory \/ ValidateCursor

SpecValid == InitValid /\ [][NextValid]_vars

\* the call fn has returned
validated(fn) == vInput.fn = fn /\ ~IsNull(vResult)

\* some error of the result has this type and one of these messages
reported(type, messages) ==
    \E k \in 1..Len(Val(vResult).errors) :
        /\ Val(vResult).errors[k].type = type
        /\ Val(vResult).errors[k].message \in messages

currentIndexInRange(nodes, cur) == -1 <= cur /\ cur < Len(nodes)

parentsBefore(nodes) ==
    \A i \in 0..(Len(nodes) - 1) :
        ~IsNull(At(nodes, i).parentIndex) =>
            /\ Val(At(nodes, i).parentIndex) >= 0
            /\ Val(At(nodes, i).parentIndex) < i

branchesInRange(nodes) ==
    \A i \in 0..(Len(nodes) - 1) :
        \A j \in 1..Len(At(nodes, i).branches) :
            Has(nodes, At(nodes, i).branches[j])

branchesPointBack(nodes) ==
    \A i \in 0..(Len(nodes) - 1) :
        \A j \in 1..Len(At(nodes, i).branches) :
            Has(nodes, At(nodes, i).branches[j]) =>
                At(nodes, At(nodes, i).branches[j]).parentIndex = Some(i)

timestampsNotLate(nodes, now) ==
    \A i \in 0..(Len(nodes) - 1) : At(nodes, i).timestamp <= now + ClockSkewMs

(* C26. validateHistory on schema-valid nodes is valid exactly when        *)
(* -1 <= currentIndex < nodes.length, every non-null parentIndex is >= 0   *)
(* and less than the node's own index, every branches entry is in          *)
(* [0, nodes.length), every branches entry b of node p has                 *)
(* nodes[b].parentIndex = p (else an orphaned_parent error), and no        *)
(* timestamp is more than 60 seconds in the future; each violated          *)
(* condition yields at least one error.                                    *)
HistoryValidity ==
    ( /\ validated("validateHistory")
      /\ HistoryNodesSchemaOk(vInput.nodes)
      /\ TimestampSchemaOk(vInput.nodes) ) =>
        LET nodes == vInput.nodes
            c1 == currentIndexInRange(nodes, vInput.currentIndex)
            c2 == parentsBefore(nodes)
            c3 == branchesInRange(nodes)
            c4 == branchesPointBack(nodes)
            c5 == timestampsNotLate(nodes, vInput.now)
        IN  /\ Val(vResult).isValid <=> (c1 /\ c2 /\ c3 /\ c4 /\ c5)
            /\ ~c1 => reported("invalid_history", {"Invalid current index"})
            /\ ~c2 => reported("invalid_history",
                               {"Invalid parent index",
                                "Parent index must be less than current index (no cycles)"})
            /\ ~c3 => reported("invalid_history", {"Invalid branch index"})
            /\ ~c4 => reported("orphaned_parent",
                               {"Branch doesn't point back to parent"})
            /\ ~c5 => reported("invalid_history",
                               {"Timestamp is too far in the future"})

\* a history whose only fault is a branch entry that does not point back
HistoryValidityWitness ==
    /\ validated("validateHistory")
    /\ HistoryNodesSchemaOk(vInput.nodes)
    /\ TimestampSchemaOk(vInput.nodes)
    /\ currentIndexInRange(vInput.nodes, vInput.currentIndex)
    /\ parentsBefore(vInput.nodes)
    /\ branchesInRange(vInput.nodes)
    /\ timestampsNotLate(vInput.nodes, vInput.now)
    /\ ~branchesPointBack(vInput.nodes)
    /\ ~Val(vResult).isValid
    /\ Len(Val(vResult).errors) = 1

RECURSIVE repeatedFrom(_, _)
\* the entries of ids, from position j on, that also occur before their
\* own position
repeatedFrom(ids, j) ==
    IF j > Len(ids) THEN <<>>
    ELSE (IF \E i \in 1..(j - 1) : ids[i] = ids[j] THEN <<ids[j]>> ELSE <<>>)
         \o repeatedFrom(ids, j + 1)

(* C27. validateDocument on a schema-valid document reports exactly one    *)
(* duplicate_id error for every occurrence of an id after its first        *)
(* occurrence in depth-first pre-order over the whole tree, and is valid   *)
(* iff there is none; on a schema-invalid document it returns only         *)
(* schema_error errors.                                                    *)
DuplicateIdErrors ==
    validated("validateDocument") =>
        LET errors == Val(vResult).errors
        IN  IF BlockArraySchemaOk(vInput.doc)
            THEN /\ [k \in 1..Len(errors) |-> errors[k].blockId]
                        = repeatedFrom(blockIds(vInput.doc), 1)
                 /\ \A k \in 1..Len(errors) : errors[k].type = "duplicate_id"
                 /\ Val(vResult).isValid <=> Distinct(blockIds(vInput.doc))
            ELSE /\ ~Val(vResult).isValid
                 /\ Len(errors) >= 1
                 /\ \A k \in 1..Len(errors) : errors[k].type = "schema_error"

\* an id occurs three times, in a block, in a child of it and in a sibling
DuplicateIdErrorsWitness ==
    /\ validated("validateDocument")
    /\ BlockArraySchemaOk(vInput.doc)
    /\ Len(vInput.doc) = 2
    /\ Len(vInput.doc[1].children) >= 1
    /\ vInput.doc[1].children[1].id = vInput.doc[1].id
    /\ vInput.doc[2].id = vInput.doc[1].id
    /\ Len(Val(vResult).errors) = 2

RECURSIVE allBlocks(_)
\* the blocks of the tree, at every depth
allBlocks(blocks) ==
    UNION { {blocks[k]} \cup allBlocks(blocks[k].children) : k \in 1..Len(blocks) }

(* C28. validateCursor(null, doc) is valid for every doc; for a            *)
(* schema-valid non-null cursor it is valid iff a block with id blockId    *)
(* exists anywhere in doc and selectionStart <= selectionEnd <= length of  *)
(* that block's content; a missing block, a selection bound beyond the     *)
(* content length and selectionStart > selectionEnd are each reported as   *)
(* an invalid_cursor error.                                                *)
CursorValidity ==
    validated("validateCursor") =>
        IF IsNull(vInput.cursor) THEN Val(vResult).isValid
        ELSE CursorPositionSchemaOk(vInput.cursor) =>
            LET c == Val(vInput.cursor)
                targets == {b \in allBlocks(vInput.doc) : b.id = c.blockId}
                errors == Val(vResult).errors
                invalidCursor == \E k \in 1..Len(errors) :
                                     errors[k].type = "invalid_cursor"
            IN  /\ Val(vResult).isValid <=>
                       \E b \in targets :
                           /\ c.selectionStart <= c.selectionEnd
                           /\ c.selectionEnd <= Len(b.content)
                /\ targets = {} => invalidCursor
                /\ (\E b \in targets : \/ c.selectionStart > Len(b.content)
                                       \/ c.selectionEnd > Len(b.content))
                       => invalidCursor
                /\ c.selectionStart > c.selectionEnd => invalidCursor
                /\ \A k \in 1..Len(errors) : errors[k].type = "invalid_cursor"

\* a valid cursor with a non-empty selection in a block below the top level
CursorValidityWitness ==
    /\ validated("validateCursor")
    /\ ~IsNull(vInput.cursor)
    /\ \E k \in 1..Len(vInput.doc) :
           \E j \in 1..Len(vInput.doc[k].children) :
               vInput.doc[k].children[j].id = Val(vInput.cursor).blockId
    /\ Val(vInput.cursor).selectionStart < Val(vInput.cursor).selectionEnd
    /\ Val(vResult).isValid

----------------------------------------------------------------------------
(* The editor (context/EditorProvider): the history hook together with the *)
(* cursor position.  cursorPosition is Null or Some of                     *)
(* [blockId, selectionStart, selectionEnd]; it is set by                   *)
(* handleSelectionChange from the input element of a rendered block, and   *)
(* to null when editing ends; the edit actions, undo and redo are those of *)
(* the hook and do not touch it.                                           *)

\* the selection an input element showing the content can report
selectionOf(content) ==
    { [selectionStart |-> st, selectionEnd |-> en] :
          st \in 0..Len(content), en \in 0..Len(content) }

\* setCursorPosition(cursor): null, or the selection of the input of a
\* block of the current document
SetCursorPosition(cursor) ==
    /\ \/ IsNull(cursor)
       \/ /\ ~IsNull(cursor)
          /\ \E b \in allBlocks(doc) :
                 /\ b.id = Val(cursor).blockId
                 /\ \E sel \in selectionOf(b.content) :
                        /\ sel.selectionStart <= sel.selectionEnd
                        /\ Val(cursor).selectionStart = sel.selectionStart
                        /\ Val(cursor).selectionEnd = sel.selectionEnd
    /\ cursorPosition # cursor
    /\ cursorPosition' = cursor
    /\ UNCHANGED <<histVars, patchVars, storeVars, otherItems, validVars, linear,
                   executedOn, debounceVars>>

\* the cursor positions the components may report
EditorCursors ==
    {Null} \cup { Some([blockId |-> b, selectionStart |-> st, selectionEnd |-> en]) :
                      b \in 1..(FirstFreshId + MaxNodes),
                      st \in 0..1, en \in 0..1 }

NextEditor ==
    \/ Next
    \/ \E cursor \in EditorCursors : SetCursorPosition(cursor)

SpecEditor == Init /\ [][NextEditor]_vars

(* C29. Cursor invariant: in every reachable state of the editor, after    *)
(* any sequence of cursor updates, edits, undo and redo, a non-null        *)
(* cursorPosition refers to a block that exists in the current document    *)
(* and has 0 <= selectionStart <= selectionEnd <= length of that block's   *)
(* content.                                                                *)
CursorInvariant ==
    ~IsNull(cursorPosition) =>
        \E b \in allBlocks(doc) :
            /\ b.id = Val(cursorPosition).blockId
            /\ 0 <= Val(cursorPosition).selectionStart
            /\ Val(cursorPosition).selectionStart <= Val(cursorPosition).selectionEnd
            /\ Val(cursorPosition).selectionEnd <= Len(b.content)

----------------------------------------------------------------------------
(* useDebouncedCallback (hooks/useDebouncedCallback).                      *)
(*   timeoutRef  timeoutRef.current: Null or Some(timer id)                *)
(*   timers      the timers set and neither fired nor cleared, as          *)
(*               [id, args]: when the timer fires, the callback is called  *)
(*               with args                                                 *)
(*   invoked     the arguments of the calls of the callback so far         *)
(*   dCall       the last operation, the arguments that were pending       *)
(*               before it, and the number of calls of the callback        *)
(*               before it                                                 *)

\* the most calls of the callback
MaxCalls == 3

\* the arguments debouncedCallback is called with
DebounceArgs == {"a", "b"}

\* the id setTimeout returns: not the id held in timeoutRef
setTimeoutId(ref) == IF ~IsNull(ref) /\ Val(ref) = 1 THEN 2 ELSE 1

\* clearTimeout(id)
clearTimeout(ts, id) == {t \in ts : t.id # id}

\* the arguments of the pending call, if there is one
pendingArgs(ts) == IF ts = {} THEN Null ELSE Some((CHOOSE t \in ts : TRUE).args)

\* cancel() forgetting the timer without clearing it
cancelKeepingTimer(ref, ts) ==
    IF ~IsNull(ref)
    THEN [timeoutRef |-> Null, timers |-> ts]
    ELSE [timeoutRef |-> ref, timers |-> ts]

\* cancel(): timeoutRef.current and the timers afterwards
cancel(ref, ts) ==
    IF ~IsNull(ref)
    THEN [timeoutRef |-> Null, timers |-> clearTimeout(ts, Val(ref))]
    ELSE [timeoutRef |-> ref, timers |-> ts]

\* flush(): timeoutRef.current and the timers afterwards
flush(ref, ts) ==
    IF ~IsNull(ref)
    THEN [timeoutRef |-> Null, timers |-> clearTimeout(ts, Val(ref))]
    ELSE [timeoutRef |-> ref, timers |-> ts]

DebounceCall(fn) ==
    [fn |-> fn, pending |-> pendingArgs(timers), calls |-> Len(invoked)]

debounceFrame ==
    <<histVars, patchVars, storeVars, otherItems, validVars, cursorPosition,
      linear, executedOn>>

InitDebounce ==
    /\ InitHist /\ InitPatchIdle
    /\ InitStoreIdle /\ InitValidIdle /\ InitCursorIdle /\ InitLinearIdle /\ InitReplayIdle
    /\ InitDebounceIdle

DebouncedCallback(args) ==
    /\ LET c == cancel(timeoutRef, timers)
           id == setTimeoutId(c.timeoutRef)
       IN  /\ timeoutRef' = Some(id)
           /\ timers' = c.timers \cup {[id |-> id, args |-> args]}
    /\ dCall' = DebounceCall("debouncedCallback")
    /\ UNCHANGED <<invoked, debounceFrame>>

\* the delay has passed: the timer's function calls callbackRef.current
TimerFires ==
    /\ Len(invoked) < MaxCalls
    /\ \E t \in timers :
           /\ timers' = timers \ {t}
           /\ invoked' = Append(invoked, t.args)
    /\ dCall' = DebounceCall("timer")
    /\ UNCHANGED <<timeoutRef, debounceFrame>>

Cancel ==
    /\ LET c == cancel(timeoutRef, timers)
       IN  /\ timeoutRef' = c.timeoutRef
           /\ timers' = c.timers
    /\ dCall' = DebounceCall("cancel")
    /\ UNCHANGED <<invoked, debounceFrame>>

Flush ==
    /\ LET f == flush(timeoutRef, timers)
       IN  /\ timeoutRef' = f.timeoutRef
           /\ timers' = f.timers
    /\ dCall' = DebounceCall("flush")
    /\ UNCHANGED <<invoked, debounceFrame>>

NextDebounce ==
    \/ \E args \in DebounceArgs : DebouncedCallback(args)
    \/ TimerFires
    \/ Cancel
    \/ Flush

SpecDebounce == InitDebounce /\ [][NextDebounce]_vars

(* C30. flush() forces immediate commitment of a pending debounced call:   *)
(* if a call is pending when flush() is invoked, the callback runs at once *)
(* with the arguments of the most recent invocation and no timer remains   *)
(* pending.                                                                *)
FlushCommits ==
    (dCall.fn = "flush" /\ ~IsNull(dCall.pending)) =>
        /\ Len(invoked) = dCall.calls + 1
        /\ invoked[Len(invoked)] = Val(dCall.pending)
        /\ timers = {}

----------------------------------------------------------------------------
(* Persistence: saving, loading and clearing together *)

\* the last call was saveEditorState
saved == sCall.fn = "saveEditorState"

\* the state saveEditorState was called with, as an envelope of the
\* current version
savedEnvelope ==
    [doc |-> Val(sCall.args).doc,
     historyNodes |-> Val(sCall.args).historyNodes,
     currentIndex |-> Val(sCall.args).currentIndex,
     cursor |-> Val(sCall.args).cursor,
     version |-> STORAGE_VERSION]

InvalidStateNotSaved ==
    (saved /\ ~PersistedStateSchemaOk(savedEnvelope)) =>
        /\ ~sCall.wrote
        /\ storage = sCall.before

\* a document with an empty id was not saved over a stored envelope
InvalidStateNotSavedWitness ==
    /\ saved
    /\ Val(sCall.args).doc = EmptyIdDoc
    /\ ~IsNull(sCall.before)
    /\ Val(sCall.before).parses
    /\ storage = sCall.before

----------------------------------------------------------------------------
(* History tree: what undo and redo replay against.  executedOn records,   *)
(* for each non-null execute call, the document the command was executed   *)
(* on and the document its forward patch gave.                             *)

replayFrame ==
    <<patchVars, storeVars, otherItems, validVars, cursorPosition, linear,
      debounceVars>>

\* execute(command), recorded in executedOn
executeRecorded(command) ==
    /\ execute(command)
    /\ executedOn' = IF IsNull(command) THEN executedOn
                     ELSE Append(executedOn, [before |-> doc, after |-> doc'])

ReplayUpdateContent(path, content) ==
    /\ executeRecorded(updateContentCommand(doc, path, content))
    /\ UNCHANGED <<idCounter, replayFrame>>

ReplayInsertBlock(parentPath, index, type) ==
    /\ executeRecorded(Some(insertBlockCommand(parentPath, index, type, idCounter)))
    /\ idCounter' = idCounter + 1
    /\ UNCHANGED replayFrame

ReplayMoveBlock(fromParentPath, fromIndex, toParentPath, toIndex) ==
    /\ executeRecorded(Some(moveBlockCommand(fromParentPath, fromIndex,
                                             toParentPath, toIndex)))
    /\ UNCHANGED <<idCounter, replayFrame>>

ReplayUndo ==
    /\ undo
    /\ UNCHANGED <<executedOn, idCounter, replayFrame>>

ReplayRedo(nodeIndex) ==
    /\ redo(nodeIndex)
    /\ UNCHANGED <<executedOn, idCounter, replayFrame>>

NextReplay ==
    \/ \E a \in UpdateArgs : ReplayUpdateContent(a[1], a[2])
    \/ \E a \in InsertArgs : ReplayInsertBlock(a[1], a[2], a[3])
    \/ \E a \in MoveArgs : ReplayMoveBlock(a[1], a[2], a[3], a[4])
    \/ ReplayUndo
    \/ \E nodeIndex \in RedoArgs : ReplayRedo(nodeIndex)

SpecReplay == Init /\ [][NextReplay]_vars

(* C32. The history tree only ever replays a patch against the document    *)
(* state it was derived from: every redo that moves to a node applies that *)
(* node's forward patch to a document structurally equal to the one the    *)
(* node's command was executed on, and every undo applies the current      *)
(* node's inverse patch to a document structurally equal to the result of  *)
(* that node's forward patch.                                              *)
ReplaysAgainstDerivedState ==
    [][ /\ (lastCall'.op = "redo" /\ currentIndex' # currentIndex) =>
               structurallyEqual(doc, At(executedOn, currentIndex').before)
        /\ (lastCall'.op = "undo" /\ currentIndex >= 0) =>
               structurallyEqual(doc, At(executedOn, currentIndex).after)
      ]_vars

----------------------------------------------------------------------------
(* Move ops: what becomes of the blocks *)

\* the block the move op names, when its source resolves
movedBlock(d, op) ==
    LET fromParent == getParentArray(d, op.fromParentPath)
    IN  IF fromParent.found /\ Has(fromParent.arr, op.fromIndex)
        THEN Some(At(fromParent.arr, op.fromIndex)) ELSE Null

(* C33. A move op relocates one block with its subtree and neither drops   *)
(* nor duplicates anything: for every document and every move op, the      *)
(* block ids of the document after the op are those before it, each as     *)
(* many times, and the moved block is in the document with its subtree     *)
(* unchanged.                                                              *)
MoveKeepsBlocks ==
    (pStage = "fwd" /\ pFn = "moveBlockCommand") =>
        LET op == onlyOp(Val(pCmd).forward)
            moved == movedBlock(pDoc, op)
        IN  /\ idSet(pFwd) = idSet(pDoc)
            /\ Len(blockIds(pFwd)) = Len(blockIds(pDoc))
            /\ ~IsNull(moved) =>
                   \E b \in allBlocks(pFwd) :
                       structurallyEqual(<<b>>, <<Val(moved)>>)

(* C38. Undoing back to the initial position restores the initial          *)
(* document: in every reachable state with currentIndex = -1 the document  *)
(* is structurally equal to the document the history tree was initialised  *)
(* with.                                                                   *)
InitialPositionInitialDoc ==
    currentIndex = -1 => structurallyEqual(doc, InitialDoc)

----------------------------------------------------------------------------
(* The editor's calls on the history tree.  execute, undo and redo are     *)
(* closures over the doc, historyNodes and currentIndex of the render that *)
(* created them, and their state updates replace the state at the next     *)
(* render.  A drop on a block is handled by the drop target of that block  *)
(* and by the drop target of each of its ancestors, innermost first, in    *)
(* one event: each target that can take the item calls moveBlock, and all  *)
(* these calls run before the next render.                                 *)

\* the props of the BlockNode rendered for the block at path
parentPathOf(path) ==
    IF Len(path) = 1 THEN Null ELSE Some(SubSeq(path, 1, Len(path) - 1))

indexOf(path) == path[Len(path)]

\* useDrag item
DragItem(d, path) ==
    [path |-> path, parentPath |-> parentPathOf(path), index |-> indexOf(path),
     blockId |-> Val(getBlockAtPath(d, path)).id]

\* useDrop canDrop, for the drop target of the block at path
canDrop(item, d, path) ==
    LET block == Val(getBlockAtPath(d, path))
        isDescendant == \A i \in 1..Len(item.path) : item.path[i] = path[i]
    IN  /\ item.blockId # block.id
        /\ ~(Len(path) > Len(item.path) /\ isDescendant)

\* useDrop drop, for the drop target of the block at path: the command of
\* the moveBlock call it makes, Null when it makes none
dropCommand(item, d, path, dropPosition) ==
    LET block == Val(getBlockAtPath(d, path))
        toParentPath == IF dropPosition = "child" THEN Some(path)
                        ELSE parentPathOf(path)
        toIndex == IF dropPosition = "before" THEN indexOf(path)
                   ELSE IF dropPosition = "after" THEN indexOf(path) + 1
                   ELSE Len(block.children)
    IN  IF ~canDrop(item, d, path) THEN Null
        ELSE IF ~pathEquals(item.parentPath, toParentPath) \/ item.index # toIndex
             THEN Some(moveBlockCommand(item.parentPath, item.index,
                                        toParentPath, toIndex))
             ELSE Null

\* the drop targets under a pointer over the block at path, innermost first
dropTargets(path) == [k \in 1..Len(path) |-> SubSeq(path, 1, Len(path) + 1 - k)]

\* the commands the drop targets execute, in call order
dropCalls(item, d, path, positions) ==
    LET targets == dropTargets(path)
        commands == [k \in 1..Len(targets) |->
                        dropCommand(item, d, targets[k], positions[k])]
        issued == SelectSeq(commands, LAMBDA command : ~IsNull(command))
    IN  [k \in 1..Len(issued) |-> Val(issued[k])]

DropPositions == {"before", "after", "child"}

DropPaths == {<<0>>, <<1>>, <<0, 0>>}

DropDocs ==
    { <<WithChildren(BlockA, <<BlockB>>), BlockC>>,
      <<WithChildren(BlockA, <<BlockB>>), BlockT>>,
      <<BlockA, BlockB>> }

InitDrop ==
    /\ doc \in DropDocs
    /\ historyNodes = <<>>
    /\ currentIndex = -1
    /\ idCounter = PatchFreshId
    /\ lastCall = Call("init", Null, "none")
    /\ InitPatchIdle
    /\ InitSideIdle

\* a drop of the block at itemPath on the block at path
Drop(itemPath, path, positions) ==
    /\ ~IsNull(getBlockAtPath(doc, itemPath))
    /\ ~IsNull(getBlockAtPath(doc, path))
    /\ LET calls == dropCalls(DragItem(doc, itemPath), doc, path, positions)
       IN  /\ Len(calls) > 0
           /\ Len(historyNodes) < MaxNodes
           /\ LET last == calls[Len(calls)]
                  r == addHistoryNode(historyNodes, currentIndex, last)
              IN  /\ doc' = applyPatch(doc, last.forward)
                  /\ historyNodes' = r.nodes
                  /\ currentIndex' = r.newIndex
                  /\ lastCall' = Call("execute", Some(last), "none")
           /\ executedOn' = executedOn \o
                  [k \in 1..Len(calls) |->
                      [before |-> doc, after |-> applyPatch(doc, calls[k].forward)]]
    /\ UNCHANGED <<idCounter, replayFrame>>

NextDrop ==
    \/ \E itemPath \in DropPaths, path \in DropPaths,
          positions \in [1..2 -> DropPositions] : Drop(itemPath, path, positions)
    \/ \E a \in InsertArgs : ReplayInsertBlock(a[1], a[2], a[3])

SpecDrop == InitDrop /\ [][NextDrop]_vars

(* C34. Every execute, undo or redo call issued by the editor observes the *)
(* state produced by the previous call: no call computes from a stale      *)
(* snapshot of doc, historyNodes and currentIndex, so n non-null execute   *)
(* calls record n history nodes, and each call was made on the document    *)
(* the call before it produced.                                            *)
CallsObservePreviousCall ==
    /\ Len(executedOn) = Len(historyNodes)
    /\ \A k \in 2..Len(executedOn) : executedOn[k].before = executedOn[k - 1].after

----------------------------------------------------------------------------
(* The running editor and localStorage.  storage is the item under         *)
(* EDITOR_STATE_KEY, otherItems the items under the other keys in use.     *)
(* EditorProvider loads with loadEditorState when it mounts and hands its  *)
(* state to usePersistence, which writes it when its timer fires.          *)

EDITOR_STATE_KEY == "mini-notion-editor-state"

\* the storage key EditorProvider gives usePersistence
ProviderStorageKey == "editor-state"

\* the value EditorProvider gives usePersistence
providerValue ==
    [doc |-> doc, historyNodes |-> historyNodes, currentIndex |-> currentIndex,
     cursor |-> cursorPosition]

\* usePersistence: the timer of the save effect fires
UsePersistence(storageKey, value) ==
    /\ historyNodes # <<>>
    /\ IF storageKey = EDITOR_STATE_KEY
       THEN /\ storage' = Some(JSONstringify(value))
            /\ UNCHANGED otherItems
       ELSE /\ otherItems' = [otherItems EXCEPT ![storageKey] = Some(JSONstringify(value))]
            /\ UNCHANGED storage
    /\ sCall' = [fn |-> "usePersistence", args |-> Some(value),
                 before |-> storage, wrote |-> TRUE]
    /\ UNCHANGED <<histVars, patchVars, loaded, validVars, cursorPosition, linear,
                   executedOn,
                   debounceVars>>

\* the page is loaded again: EditorProvider mounts (the ids handed out so
\* far bound the number of reloads)
Mount ==
    /\ sCall.fn = "usePersistence"
    /\ idCounter < FirstFreshId + MaxNodes
    /\ LET r == loadEditorState(storage)
       IN  /\ storage' = r.storage
           /\ loaded' = r.result
           /\ doc' = IF IsNull(r.result) THEN InitialDoc ELSE Val(r.result).doc
           /\ cursorPosition' = IF IsNull(r.result) THEN Null
                                ELSE Val(r.result).cursor
    /\ historyNodes' = <<>>
    /\ currentIndex' = -1
    /\ lastCall' = Call("init", Null, "none")
    /\ sCall' = [fn |-> "loadEditorState", args |-> sCall.args,
                 before |-> storage, wrote |-> FALSE]
    /\ UNCHANGED <<idCounter, otherItems, patchVars, validVars, linear, executedOn,
                   debounceVars>>

PersistCursors ==
    {Null, Some([blockId |-> 1, selectionStart |-> 0, selectionEnd |-> 1])}

NextPersist ==
    \/ \E a \in UpdateArgs : UpdateContent(a[1], a[2])
    \/ \E a \in InsertArgs : InsertBlock(a[1], a[2], a[3])
    \/ \E cursor \in PersistCursors : SetCursorPosition(cursor)
    \/ UsePersistence(ProviderStorageKey, providerValue)
    \/ Mount

SpecPersist == Init /\ [][NextPersist]_vars

(* C35. What the running editor persists is what it loads: the snapshot    *)
(* EditorProvider saves is written under the storage key loadEditorState   *)
(* reads, so that when the editor starts again after a save,               *)
(* loadEditorState returns the last saved document and cursor.             *)
EditorLoadsWhatItSaved ==
    sCall.fn = "loadEditorState" =>
        /\ ~IsNull(loaded)
        /\ structurallyEqual(Val(loaded).doc, Val(sCall.args).doc)
        /\ Val(loaded).cursor = Val(sCall.args).cursor

----------------------------------------------------------------------------
(* useDebouncedCallback: bursts and cancel *)

(* C37. The debounced callback runs only when the delay has passed since   *)
(* the last invocation, and each new call resets the timer: after a call   *)
(* exactly one timer is pending and it carries that call's arguments, so a *)
(* burst of calls runs the callback once, with the arguments of the last   *)
(* call; a timer that fires runs the callback once and leaves nothing      *)
(* pending; after cancel() nothing is pending, so the call never runs.     *)
DebounceRunsLastCall ==
    [][ /\ \A args \in DebounceArgs :
               DebouncedCallback(args) =>
                   /\ Cardinality(timers') = 1
                   /\ pendingArgs(timers') = Some(args)
        /\ TimerFires =>
               /\ timers' = {}
               /\ invoked' = Append(invoked, Val(pendingArgs(timers)))
        /\ Cancel => (timers' = {} /\ invoked' = invoked)
      ]_vars

\* the timer fired and ran the callback once, with the last call's
\* argument, after an earlier run with another argument
DebounceRunsLastCallWitness ==
    /\ dCall.fn = "timer"
    /\ dCall.pending = Some("b")
    /\ invoked = <<"a", "b">>
    /\ timers = {}

----------------------------------------------------------------------------
(* History tree: the branches lists seen from the child *)

\* the number of times node j is listed in the branches of node i
listed(i, j) ==
    Cardinality({k \in 1..Len(Node(i).branches) : Node(i).branches[k] = j})

(* C39. Converse of the branch invariant: in every reachable state each    *)
(* node with a non-null parentIndex p appears exactly once in              *)
(* historyNodes[p].branches and in no other branches list, root nodes      *)
(* appear in no branches list, and every branches list is strictly         *)
(* increasing; so every node belongs to exactly one redo candidate set.    *)
BranchConverse ==
    \A j \in 0..(Len(historyNodes) - 1) :
        /\ Increasing(Node(j).branches)
        /\ \A i \in 0..(Len(historyNodes) - 1) :
               listed(i, j) =
                   (IF Node(j).parentIndex = Some(i) THEN 1 ELSE 0)
        /\ ~IsNull(Node(j).parentIndex) => Has(historyNodes, Val(Node(j).parentIndex))

\* two roots, the first of them with a child
BranchConverseWitness ==
    /\ Len(historyNodes) = 3
    /\ Node(0).branches = <<2>>
    /\ IsNull(Node(1).parentIndex)
    /\ getRootNodeIndices(historyNodes) = <<0, 1>>

----------------------------------------------------------------------------
(* useHistory (hooks/useHistory): the linear history, a list of commands   *)
(* with the index of the last one applied.  linear is its state; it is     *)
(* given every call the history tree is given.                             *)

\* useHistory execute keeping the redo tail
useHistoryExecuteKeepingTail(h, command) ==
    IF IsNull(command) THEN h
    ELSE LET newHistory == Append(h.history, Val(command))
         IN  [doc |-> applyPatch(h.doc, Val(command).forward),
              history |-> newHistory,
              historyIndex |-> Len(newHistory) - 1]

\* useHistory execute(command)
useHistoryExecute(h, command) ==
    IF IsNull(command) THEN h
    ELSE LET newHistory == Append(SubSeq(h.history, 1, h.historyIndex + 1),
                                  Val(command))
         IN  [doc |-> applyPatch(h.doc, Val(command).forward),
              history |-> newHistory,
              historyIndex |-> Len(newHistory) - 1]

\* useHistory undo()
useHistoryUndo(h) ==
    IF h.historyIndex < 0 THEN h
    ELSE [h EXCEPT !.doc = applyPatch(h.doc, At(h.history, h.historyIndex).inverse),
                   !.historyIndex = h.historyIndex - 1]

\* useHistory redo()
useHistoryRedo(h) ==
    IF h.historyIndex >= Len(h.history) - 1 THEN h
    ELSE [h EXCEPT !.doc = applyPatch(h.doc, At(h.history, h.historyIndex + 1).forward),
                   !.historyIndex = h.historyIndex + 1]

useHistoryCanUndo(h) == h.historyIndex >= 0

useHistoryCanRedo(h) == h.historyIndex < Len(h.history) - 1

linearFrame ==
    <<patchVars, storeVars, otherItems, validVars, cursorPosition, executedOn,
      debounceVars>>

InitLinear ==
    /\ InitHist /\ InitPatchIdle
    /\ InitStoreIdle /\ InitValidIdle /\ InitCursorIdle /\ InitDebounceIdle
    /\ InitReplayIdle
    /\ linear = [doc |-> InitialDoc, history |-> <<>>, historyIndex |-> -1]

\* both histories are given execute(command)
BothExecute(command) ==
    /\ execute(command)
    /\ linear' = useHistoryExecute(linear, command)

BothUpdateContent(path, content) ==
    /\ BothExecute(updateContentCommand(doc, path, content))
    /\ UNCHANGED <<idCounter, linearFrame>>

BothInsertBlock(parentPath, index, type) ==
    /\ BothExecute(Some(insertBlockCommand(parentPath, index, type, idCounter)))
    /\ idCounter' = idCounter + 1
    /\ UNCHANGED linearFrame

BothMoveBlock(fromParentPath, fromIndex, toParentPath, toIndex) ==
    /\ BothExecute(Some(moveBlockCommand(fromParentPath, fromIndex,
                                         toParentPath, toIndex)))
    /\ UNCHANGED <<idCounter, linearFrame>>

BothUndo ==
    /\ undo
    /\ linear' = useHistoryUndo(linear)
    /\ UNCHANGED <<idCounter, linearFrame>>

\* both histories are given redo()
BothRedo ==
    /\ redo(Null)
    /\ linear' = useHistoryRedo(linear)
    /\ UNCHANGED <<idCounter, linearFrame>>

NextLinear ==
    \/ \E a \in UpdateArgs : BothUpdateContent(a[1], a[2])
    \/ \E a \in InsertArgs : BothInsertBlock(a[1], a[2], a[3])
    \/ \E a \in MoveArgs : BothMoveBlock(a[1], a[2], a[3], a[4])
    \/ BothUndo
    \/ BothRedo

SpecLinear == InitLinear /\ [][NextLinear]_vars

====
